---------------------------- MODULE Spec2Model ----------------------------
(***************************************************************************)
(* Decision & position-lifecycle engine of the BTC scalper                 *)
(* (src/unnamed/part_003, class BTCScalper, lines 586-1341).               *)
(*                                                                         *)
(* Units.  Money is in cents (the venue reports the balance in cents and   *)
(* the code divides by 100).  Prices are in price-units 1..99.  Time is in *)
(* units of 300 s, the largest unit in which the stale-order age (300 s)   *)
(* and the emergency pause (30 min) are whole numbers.  Probabilities and  *)
(* edges are in thousandths.                                               *)
(*                                                                         *)
(* Concurrency.  The runtime is single-threaded: code between two awaits   *)
(* runs atomically.  Every action below is one such run: it starts where a *)
(* timer fires or a venue call returns and ends at the next await (or at   *)
(* the end of the handler).  A tick of _cycle that is suspended at an      *)
(* await is a tick slot whose pc names the awaited call.                   *)
(***************************************************************************)
EXTENDS Integers, Sequences, FiniteSets, TLC

\* ---------------------------------------------------------------- bounds
\* Tick slots: how many runs of _cycle may be suspended at the same time.
MaxTicks == 2
\* Orders created in one behaviour.
MaxOrders == 2
\* Last value of the clock.
MaxTime == 2
\* Runs of _cycle that get past its guard (this._cycleCount).
MaxCycles == 3

\* ------------------------------------------------- configuration (cfg)
startBankroll == 1000
target == 1100
hours == 2
maxBets == 1

\* --------------------------------------------------- program constants
StaleAge == 1
PauseWindow == 6
TakeProfit == 6
EmergencyPct == 60

Ticks == 1..MaxTicks

\* Balances the venue may report, in cents.
Balances == {400}
\* Best bids an order book may show.
Bids == {34, 47}

\* An opportunity as _analyze returns it.  isMicro and volRegime are
\* derived from the edge (edge < 0.10).
Opp(tk, sd, pr, ed, pb, ml) ==
  [ticker |-> tk, side |-> sd, price |-> pr, edge |-> ed, modelProb |-> pb,
   minsLeft |-> ml, isMicro |-> (ed < 100)]

\* The opportunities discovery may score: one thin-edge (micro) on ticker
\* A and one Kelly-sized on ticker B.
Opps == {Opp("A", "yes", 40, 70, 470, 1), Opp("B", "no", 40, 150, 550, 4)}

\* The lists scored.sort(...) may produce: no ticker twice (the market list
\* is de-duplicated by ticker).
ScoredLists ==
  {<<>>} \cup {<<o>> : o \in Opps}
         \cup {s \in {<<o1, o2>> : o1 \in Opps, o2 \in Opps} :
                 s[1].ticker # s[2].ticker}

\* What the analysis loop of _findAndBet meets at one candidate: _analyze
\* throws, or it returns an opportunity (opp is <<o>>) or null (<<>>).
Threw == [threw |-> TRUE, opp |-> <<>>]
Found(o) == [threw |-> FALSE, opp |-> <<o>>]

\* The candidates in the order of the market list, one of them at most
\* making _analyze throw.
AnalysisRuns ==
  LET A == Found(Opp("A", "yes", 40, 70, 470, 1))
      B == Found(Opp("B", "no", 40, 150, 550, 4))
  IN {<<>>, <<Threw>>,
      <<A>>, <<Threw, A>>, <<A, Threw>>,
      <<B>>, <<Threw, B>>, <<B, Threw>>,
      <<A, B>>, <<Threw, A, B>>, <<A, Threw, B>>, <<A, B, Threw>>}

\* The analysis loop with a throw ending it.
RECURSIVE ScoredStopsAtThrow(_)
ScoredStopsAtThrow(rs) ==
  IF rs = <<>> \/ Head(rs).threw THEN <<>>
  ELSE Head(rs).opp \o ScoredStopsAtThrow(Tail(rs))

\* The analysis loop: try { a = await this._analyze(m, sig); if (a)
\* scored.push(a) } catch(e) {} for each candidate.
RECURSIVE Scored(_)
Scored(rs) ==
  IF rs = <<>> THEN <<>>
  ELSE (IF Head(rs).threw THEN <<>> ELSE Head(rs).opp) \o Scored(Tail(rs))

\* s is a list scored.sort(...) may make of the list q.
SortOf(s, q) ==
  /\ Len(s) = Len(q)
  /\ {s[i] : i \in 1..Len(s)} = {q[i] : i \in 1..Len(q)}

VARIABLES
  dryRun,        \* cfg.dryRun
  running,       \* this.running
  startTime,     \* this.startTime
  intervals,     \* number of scheduled _cycle intervals in this._intervals
  oneShots,      \* pending setTimeout(() => this._cycle(), 2000)
  starting,      \* start() calls suspended at an await: [balance, price]
  started,       \* history: start() has been called
  cycleCount,    \* this._cycleCount
  now,           \* Date.now()
  bankroll,      \* this.bankroll
  peak,          \* this.peak
  pausedUntil,   \* this._pausedUntil
  orders,        \* every order object ever created; the id is the index
  active,        \* keys of this.activeOrders
  activeTickers, \* this.activeTickers
  totalWins,     \* this.totalWins
  totalLosses,   \* this.totalLosses
  streak,        \* this._streak
  corr,          \* this.correction: [tb, cw, cl]
  tick,          \* the suspended runs of _cycle
  settled,       \* history: settlement bookkeepings per order id
  exited,        \* history: early-exit bookkeepings per order id
  hist,          \* history: what the last step did, and latched facts
  engine,        \* a CorrectionEngine exercised on its own (part_008)
  last,          \* history: the last call made on it or on _analyze
  yolo           \* a YoloEngine (part_005), its venue and its history

vars == <<dryRun, running, startTime, intervals, oneShots, starting,
          started, cycleCount, now,
          bankroll, peak, pausedUntil, orders, active, activeTickers,
          totalWins, totalLosses, streak, corr, tick, settled, exited, hist,
          engine, last, yolo>>

\* The variables of what is exercised on its own, beside the scalper.
bench == <<engine, last, yolo>>

\* ------------------------------------------------------------- helpers
Max(a, b) == IF a >= b THEN a ELSE b
Min(a, b) == IF a <= b THEN a ELSE b

\* The part of the engine's state that a run of _cycle reads and writes.
World ==
  [running |-> running, intervals |-> intervals, bankroll |-> bankroll,
   peak |-> peak, pausedUntil |-> pausedUntil, orders |-> orders,
   active |-> active, activeTickers |-> activeTickers,
   totalWins |-> totalWins, totalLosses |-> totalLosses, streak |-> streak,
   corr |-> corr, settled |-> settled, exited |-> exited, hist |-> hist]

SetWorld(w) ==
  /\ running' = w.running
  /\ intervals' = w.intervals
  /\ bankroll' = w.bankroll
  /\ peak' = w.peak
  /\ pausedUntil' = w.pausedUntil
  /\ orders' = w.orders
  /\ active' = w.active
  /\ activeTickers' = w.activeTickers
  /\ totalWins' = w.totalWins
  /\ totalLosses' = w.totalLosses
  /\ streak' = w.streak
  /\ corr' = w.corr
  /\ settled' = w.settled
  /\ exited' = w.exited
  /\ hist' = w.hist

\* The per-step part of hist, cleared at the start of every step.
\*   threw   the run of _cycle threw and its catch ran
\*   buy     a buy order was submitted (or, in dry-run mode, recorded)
\*   gate    a run reached the gates before discovery
\*   emSkip  a pass that began at a drawdown of 60% or more went past an
\*           open position without a sell request
\*   emMiss  as emSkip, and the position was live and either its order
\*           book was not asked for or it showed a bid
\*   forced  a sell request with the emergency reason in a pass that began
\*           below 60%
\*   fedBack a Kelly-sized order was sized with a stake multiplier other
\*           than the one the engine had when the run began
\*   res     what getMarket gave the resolution poll ("" when the step was
\*           not a poll): a declared result, "pending", "404" or "error";
\*           after cancelOrder, what the venue held: "filled" or "resting"
\*   id      the position the poll, the order book or the sell was about
\*   bid     the best bid the order book showed, or the accepted sell was
\*           made at
\*   why     the exitReason computed when the order book showed that bid
\*   exit    the sell order was accepted and the exit was booked
\*   dropped _cancelStale removed a position whose last poll found the
\*           market resolved without a result, and no poll of it is in
\*           flight
\*   cancelled _cancelStale took the position id out after cancelOrder
\*   err     the venue call about the position id failed: getMarket with an
\*           error other than not found, or getOrderbook
\*   analysed what the analysis loop of _findAndBet met, candidate by
\*           candidate
\* Beside the events, hist.waiting holds the open positions whose last
\* answered poll found the market resolved without a result.
NoEvents ==
  [threw |-> FALSE, buy |-> FALSE, gate |-> FALSE, emSkip |-> FALSE,
   emMiss |-> FALSE, forced |-> FALSE, fedBack |-> FALSE,
   res |-> "", id |-> 0, bid |-> 0, why |-> "NONE", exit |-> FALSE,
   dropped |-> FALSE, cancelled |-> FALSE, err |-> FALSE,
   analysed |-> <<>>]

Fresh(h) == [h EXCEPT !.ev = NoEvents]

\* The locals of a run of _cycle that is not suspended.
\* sm0 is not a local of the code: it remembers 100 * getSizeMultiplier()
\* as it was when the run began.
Idle ==
  [pc |-> "idle", cur |-> 0, em |-> FALSE, dd60 |-> FALSE, sl |-> 0,
   bid |-> 0, reason |-> "NONE", snow |-> 0, todo |-> <<>>, cts |-> 0,
   sm0 |-> 0]

\* ------------------------------------------------- drawdown arithmetic
\* 1 - bankroll/peak >= pct/100, for peak > 0, in whole cents.
DrawdownAtLeast(b, p, pct) == 100 * (p - b) >= pct * p
\* 1 - bankroll/peak > pct/100, for peak > 0.
DrawdownAbove(b, p, pct) == 100 * (p - b) > pct * p

\* A variant of emergencyExit that fires only above 0.60.
EmergencyExitStrict(b, p) == p > 0 /\ DrawdownAbove(b, p, EmergencyPct)

\* emergencyExit of _managePositions: drawdown >= 0.60 (0 when peak is 0).
EmergencyExit(b, p) == p > 0 /\ DrawdownAtLeast(b, p, EmergencyPct)

\* slThreshold of _managePositions.
SlThreshold(b, p) ==
  IF p > 0 /\ DrawdownAbove(b, p, 40) THEN -6
  ELSE IF p > 0 /\ DrawdownAbove(b, p, 25) THEN -8
  ELSE -10

\* 4 * drawdownMult of _place.  With peak = 0 the quotient is not a number
\* or infinite and both comparisons are false.
DrawdownMult4(b, p) ==
  IF p > 0 /\ DrawdownAbove(b, p, 50) THEN 1
  ELSE IF p > 0 /\ DrawdownAbove(b, p, 30) THEN 2
  ELSE 4

\* ----------------------------------------------------- Correction Engine
\* A variant of the stake multiplier in which the fifth loss costs less
\* than the third.
SizeMult100Swapped(c) ==
  IF c.cl >= 5 THEN 55
  ELSE IF c.cl >= 3 THEN 35
  ELSE IF c.cw >= 7 THEN 140
  ELSE IF c.cw >= 5 THEN 125
  ELSE IF c.cw >= 3 THEN 112
  ELSE 100

\* A variant of the stake multiplier without the step at five wins.
SizeMult100FourSteps(c) ==
  IF c.cl >= 5 THEN 35
  ELSE IF c.cl >= 3 THEN 55
  ELSE IF c.cw >= 7 THEN 140
  ELSE IF c.cw >= 3 THEN 112
  ELSE 100

\* 100 * state.positionSizeMultiplier, as _recalc derives it.
SizeMult100(c) ==
  IF c.cl >= 5 THEN 35
  ELSE IF c.cl >= 3 THEN 55
  ELSE IF c.cw >= 7 THEN 140
  ELSE IF c.cw >= 5 THEN 125
  ELSE IF c.cw >= 3 THEN 112
  ELSE 100

\* recordOutcome: the outcome count and the streak counters.
RecordOutcome(c, won) ==
  [tb |-> c.tb + 1,
   cw |-> IF won THEN c.cw + 1 ELSE 0,
   cl |-> IF won THEN 0 ELSE c.cl + 1]

\* ----------------------------------------------------------- _place sizing
\* Micro (edge-tier) sizing: the contract count, or 0 when the cost is over
\* 20% of the bankroll and _place returns.
MicroContracts(o, b, p) ==
  LET edge == IF o.edge = 0 THEN 50 ELSE o.edge
      maxC == IF edge >= 120 THEN 5 ELSE IF edge >= 80 THEN 3 ELSE 2
      cap  == IF edge >= 120 THEN 15 ELSE IF edge >= 80 THEN 12 ELSE 8
      n    == Max(1, Min(maxC, (b * cap * DrawdownMult4(b, p)) \div (400 * o.price)))
  IN IF 5 * n * o.price > b THEN 0 ELSE n

\* A variant of Kelly sizing without the 15% ceiling.
KellyContractsNoCeiling(o, b, p, sm) ==
  LET P   == IF o.modelProb = 0 THEN 550 ELSE o.modelProb
      kn  == P - 10 * o.price
      kd  == 10 * (100 - o.price)
      kn2 == IF kn <= 0 THEN 0 ELSE IF 100 * kn >= 15 * kd THEN 15 ELSE kn
      kd2 == IF kn <= 0 THEN 1 ELSE IF 100 * kn >= 15 * kd THEN 100 ELSE kd
      fn0 == kn2 * sm * DrawdownMult4(b, p)
      fd0 == kd2 * 800
      fn  == IF 100 * fn0 > 12 * fd0 THEN 12 ELSE fn0
      fd  == IF 100 * fn0 > 12 * fd0 THEN 100 ELSE fd0
      raw == IF b <= 0 \/ b * fn < 100 * fd THEN 100 \div o.price
             ELSE (b * fn) \div (fd * o.price)
  IN Max(1, raw)

\* Kelly sizing: the contract count, or 0 when the cost is over 15% of the
\* bankroll.  kelly = (b*p - q)/b with b = (100-price)/price is
\* (P - 10*price) / (10*(100-price)) for P = 1000*p.
KellyContracts(o, b, p, sm) ==
  LET P   == IF o.modelProb = 0 THEN 550 ELSE o.modelProb
      kn  == P - 10 * o.price
      kd  == 10 * (100 - o.price)
      \* kellyFraction clamped to [0, 0.15], as kn2/kd2
      kn2 == IF kn <= 0 THEN 0 ELSE IF 100 * kn >= 15 * kd THEN 15 ELSE kn
      kd2 == IF kn <= 0 THEN 1 ELSE IF 100 * kn >= 15 * kd THEN 100 ELSE kd
      \* the fraction of the bankroll: halfKelly * sizeMult * drawdownMult,
      \* capped at 0.12
      fn0 == kn2 * sm * DrawdownMult4(b, p)
      fd0 == kd2 * 800
      fn  == IF 100 * fn0 > 12 * fd0 THEN 12 ELSE fn0
      fd  == IF 100 * fn0 > 12 * fd0 THEN 100 ELSE fd0
      \* maxBet = max($1, bankroll * fn/fd); contracts = floor(maxBet*100/price)
      raw == IF b <= 0 \/ b * fn < 100 * fd THEN 100 \div o.price
             ELSE (b * fn) \div (fd * o.price)
      n   == Max(1, raw)
  IN IF 100 * n * o.price > 15 * b THEN 0 ELSE n

\* contracts of _place, 0 when _place returns without an order.
Contracts(o, b, p, c) ==
  IF o.isMicro THEN MicroContracts(o, b, p)
  ELSE KellyContracts(o, b, p, SizeMult100(c))

\* --------------------------------------------------------- bookkeeping
\* activeOrders.delete(id); activeTickers.delete(order.ticker)
Remove(w, id) ==
  [w EXCEPT !.active = @ \ {id},
            !.activeTickers = @ \ {w.orders[id].ticker},
            !.hist.waiting = @ \ {id}]

\* Book with the high-water mark left alone on a win.
BookKeepsPeak(w, won, pnl) ==
  IF won
  THEN [w EXCEPT !.totalWins = @ + 1, !.bankroll = @ + pnl,
                 !.streak = Max(0, @) + 1]
  ELSE [w EXCEPT !.totalLosses = @ + 1, !.bankroll = @ + pnl,
                 !.streak = Min(0, @) - 1]

\* The win and loss branches shared by both resolutions.
Book(w, won, pnl) ==
  IF won
  THEN [w EXCEPT !.totalWins = @ + 1, !.bankroll = @ + pnl,
                 !.peak = Max(@, w.bankroll + pnl),
                 !.streak = Max(0, @) + 1]
  ELSE [w EXCEPT !.totalLosses = @ + 1, !.bankroll = @ + pnl,
                 !.streak = Min(0, @) - 1]

\* Settle with a win paid at the full 100 a contract, the entry price
\* not taken off.
SettleStake(w, id, result) ==
  LET o   == w.orders[id]
      won == result = o.side
      pnl == IF won THEN 100 * o.contracts ELSE -(o.price * o.contracts)
      w1  == [w EXCEPT !.corr = RecordOutcome(@, won),
                       !.settled[id] = @ + 1]
  IN Remove(Book(w1, won, pnl), id)

\* _checkResolutions, the branch isResolved && result.
Settle(w, id, result) ==
  LET o   == w.orders[id]
      won == result = o.side
      pnl == IF won THEN (100 - o.price) * o.contracts
             ELSE -(o.price * o.contracts)
      w1  == [w EXCEPT !.corr = RecordOutcome(@, won),
                       !.settled[id] = @ + 1]
  IN Remove(Book(w1, won, pnl), id)

\* EarlyExit booking the gain or loss of one contract whatever the count.
EarlyExitOneContract(w, id, bid) ==
  LET o   == w.orders[id]
      per == bid - o.price
      won == per > 0
      w1  == [w EXCEPT !.exited[id] = @ + 1]
  IN Remove(Book(w1, won, per), id)

\* _managePositions, after the sell order is accepted.
EarlyExit(w, id, bid) ==
  LET o   == w.orders[id]
      per == bid - o.price
      won == per > 0
      w1  == [w EXCEPT !.exited[id] = @ + 1]
  IN Remove(Book(w1, won, per * o.contracts), id)

\* Gone with the vanished position booked as a loss.
GoneAsLoss(w, id) == Settle(w, id, "gone")

\* _checkResolutions, the catch branch for '404' or 'not found'.
Gone(w, id) == Remove(w, id)

\* StaleDrop with the ticker left reserved.
StaleDropKeepsTicker(w, id) ==
  [w EXCEPT !.active = @ \ {id}, !.hist.waiting = @ \ {id}]

\* _cancelStale, after cancelOrder returned or failed.
StaleDrop(w, id) == Remove(w, id)

\* _checkResolutions, the branch isResolved && !result: a log line only.
Pending(w, id) == w

\* activeOrders.set(id, {...opp, contracts, cost, id, at}) and the counters
\* of _place.
Insert(w, o, n, at) ==
  LET id == Len(w.orders) + 1
      ord == [ticker |-> o.ticker, side |-> o.side, price |-> o.price,
              contracts |-> n, isMicro |-> o.isMicro,
              minsLeft |-> o.minsLeft, at |-> at]
  IN [w EXCEPT !.orders = Append(@, ord),
               !.active = @ \cup {id},
               !.activeTickers = @ \cup {o.ticker}]

\* ------------------------------------------------ one run of _cycle
\* The code between two awaits is a function from the engine's state w and
\* the run's locals l to the state and locals at the next await.  sig is
\* whether feed.getSignals() has a price when the run asks for it.

\* The least id of ids, 0 when there is none.  A Map is iterated in
\* insertion order, ids are handed out in increasing order, and an entry
\* deleted before the iterator reaches it is not visited.
Least(ids) == IF ids = {} THEN 0 ELSE CHOOSE i \in ids : \A j \in ids : i <= j

\* The run returns.
End(w, l) == [w |-> w, l |-> Idle]

\* A variant of the catch of _cycle that lets the failure end the engine.
CatchCycleDies(w, l) ==
  [w |-> [w EXCEPT !.hist.ev.threw = TRUE, !.running = FALSE, !.intervals = 0],
   l |-> Idle]

\* } catch(e) { this._log('Error', e.message); }
CatchCycle(w, l) == [w |-> [w EXCEPT !.hist.ev.threw = TRUE], l |-> Idle]

\* scored.slice(0, slots): a negative end counts from the end of the list.
Slice(s, n) ==
  IF n >= 0 THEN SubSeq(s, 1, Min(n, Len(s)))
  ELSE SubSeq(s, 1, Max(Len(s) + n, 0))

\* The loop of _findAndBet over scored.slice(0, slots), from the head of
\* l.todo to the next await (placeOrder in live mode) or to its end.
RECURSIVE PlaceScan(_, _)
PlaceScan(w, l) ==
  IF l.todo = <<>> THEN End(w, l)
  ELSE LET o == Head(l.todo)
           n == Contracts(o, w.bankroll, w.peak, w.corr)
           wb == [w EXCEPT !.hist.ev.buy = TRUE,
                           !.hist.ev.fedBack =
                              @ \/ (~o.isMicro /\ SizeMult100(w.corr) # l.sm0)]
       IN IF n = 0 THEN PlaceScan(w, [l EXCEPT !.todo = Tail(@)])
          ELSE IF dryRun
          THEN PlaceScan(Insert(wb, o, n, now), [l EXCEPT !.todo = Tail(@)])
          ELSE [w |-> wb, l |-> [l EXCEPT !.pc = "placeOrder", !.cts = n]]

\* _cycle after _cancelStale: the two gates, then the signals.
Gate(w, l, sig) ==
  LET wg == [w EXCEPT !.hist.ev.gate = TRUE]
  IN IF Cardinality(w.active) >= maxBets THEN End(wg, l)
     ELSE IF w.pausedUntil > now THEN End(wg, l)
     ELSE IF ~sig THEN End(wg, l)
     ELSE [w |-> wg, l |-> [l EXCEPT !.pc = "scan", !.cur = 0, !.snow = 0]]

\* Stale with no order ever old enough.
StaleNever(w, l, id) == FALSE

\* An order _cancelStale cancels: older than 300 s and not a dry-run order.
Stale(w, l, id) == l.snow - w.orders[id].at > StaleAge /\ ~dryRun

\* The loop of _cancelStale after the entry c.
CancelScan(w, l, c, sig) ==
  LET id == Least({i \in w.active : i > c /\ Stale(w, l, i)})
  IN IF id # 0
     THEN [w |-> w, l |-> [l EXCEPT !.pc = "cancelOrder", !.cur = id]]
     ELSE Gate(w, l, sig)

\* _cancelStale: const now = Date.now()
CancelEnter(w, l, sig) == CancelScan(w, [l EXCEPT !.snow = now], 0, sig)

\* Skipped with no exemption for micro positions.
SkippedDryOnly(w, l, id) == dryRun

\* An entry the loop of _managePositions passes over without a venue call.
Skipped(w, l, id) == dryRun \/ (w.orders[id].isMicro /\ ~l.em)

\* After emergency exit, pause for 30 min.
PauseAfter(w, l) ==
  IF l.em /\ w.active = {}
  THEN [w EXCEPT !.pausedUntil = now + PauseWindow]
  ELSE w

\* The loop of _managePositions after the entry c, then the end of the pass.
ManageScan(w, l, c, sig) ==
  LET id   == Least({i \in w.active : i > c /\ ~Skipped(w, l, i)})
      over == {i \in w.active : i > c /\ Skipped(w, l, i) /\ (id = 0 \/ i < id)}
      w1   == IF l.dd60 /\ over # {}
              THEN [w EXCEPT !.hist.ev.emSkip = TRUE,
                             !.hist.ev.emMiss = @ \/ ~dryRun]
              ELSE w
  IN IF id # 0
     THEN [w |-> w1, l |-> [l EXCEPT !.pc = "getOrderbook", !.cur = id]]
     ELSE CancelEnter(PauseAfter(w1, l), [l EXCEPT !.em = FALSE, !.sl = 0], sig)

\* Drawdown of at least 60%, evaluated on its own for the history.
Dd60(b, p) == p > 0 /\ 5 * (p - b) >= 3 * p

\* _managePositions up to its first await.
ManageEnter(w, l, sig) ==
  LET d == Dd60(w.bankroll, w.peak)
  IN IF w.active = {} THEN CancelEnter(w, [l EXCEPT !.dd60 = d], sig)
     ELSE LET e  == EmergencyExit(w.bankroll, w.peak)
              l1 == [l EXCEPT !.dd60 = d, !.em = e,
                              !.sl = SlThreshold(w.bankroll, w.peak)]
              w1 == IF e THEN [w EXCEPT !.hist.firedAt = now] ELSE w
          IN ManageScan(w1, l1, 0, sig)

\* The loop of _checkResolutions after the entry c, then the supplementary
\* fills query, which is awaited only when a position is open.
ResolveScan(w, l, c, sig) ==
  LET id == Least({i \in w.active : i > c})
  IN IF id # 0
     THEN [w |-> w, l |-> [l EXCEPT !.pc = "getMarket", !.cur = id]]
     ELSE IF w.active # {}
     THEN [w |-> w, l |-> [l EXCEPT !.pc = "getFills", !.cur = 0]]
     ELSE ManageEnter(w, l, sig)

\* exitReason of _managePositions, "NONE" for null.  near is
\* minsRemaining < 2.
ExitReason(em, per, sl, near, bid) ==
  IF em THEN "EMERGENCY"
  ELSE IF per >= TakeProfit THEN "TP"
  ELSE IF per <= sl THEN "SL"
  ELSE IF near /\ per >= 2 THEN "TIME"
  ELSE IF per >= 3 /\ bid >= 47 /\ bid <= 53 THEN "FAIR"
  ELSE "NONE"

\* stop(): running = false, every interval cleared.
StopEngine(w) == [w EXCEPT !.running = FALSE, !.intervals = 0]

\* The balance refresh of _cycle: a change of more than a cent is taken.
Refresh(w, nb) ==
  IF nb - w.bankroll > 1 \/ w.bankroll - nb > 1
  THEN [w EXCEPT !.bankroll = nb, !.peak = Max(@, nb)]
  ELSE w

\* ------------------------------------------- Correction Engine, in full
\* CorrectionEngine of part_008, lines 1-97.  Multipliers are integers:
\* edgeMultiplier in 1/10000, positionSizeMultiplier in 1/100, the
\* per-dimension weights in 1/WeightUnit.  Win rates are kept as the pair
\* (wins, entries) and compared by cross-multiplication.
windowSize == 50
minSamples == 3
HistoryCap == 200
\* 1.0 as a weight.  Every window length up to 8 divides 840, so that
\* 0.4 + (w/100)*1.4 and its like are whole numbers of this unit.
WeightUnit == 8400

Directions == {"UP", "DOWN", "NEUTRAL"}
TierKeys == {"safe", "moderate", "risky"}
\* volOutcomes starts with low, medium, high; recordOutcome adds the key of
\* any other volRegime it is given (the scalper gives micro and scalp).
BaseVolKeys == {"low", "medium", "high"}
VolKeys == BaseVolKeys \cup {"micro", "scalp"}
TimeWindows == {"morning", "midday", "afternoon", "evening"}

\* The constructor.  A weight of 0 stands for a key that is not there
\* (undefined).
FreshEngine ==
  [directionOutcomes |-> [k \in Directions |-> <<>>],
   tierOutcomes |-> [k \in TierKeys |-> <<>>],
   volOutcomes |-> [k \in VolKeys |-> <<>>],
   timeOutcomes |-> [k \in TimeWindows |-> <<>>],
   cw |-> 0, cl |-> 0, peakWinStreak |-> 0, worstLossStreak |-> 0,
   tb |-> 0, totalWins |-> 0, totalLosses |-> 0, totalPnL |-> 0,
   history |-> <<>>,
   state |-> [edgeMultiplier |-> 10000, positionSizeMultiplier |-> 100,
              directionBias |-> [k \in Directions |-> WeightUnit],
              volWeights |-> [k \in VolKeys |->
                                IF k \in BaseVolKeys THEN WeightUnit ELSE 0],
              timeWeights |-> [k \in TimeWindows |-> WeightUnit],
              mode |-> "LEARNING"]]

\* Push that turns the new entry away when the window is full.
PushKeepsOldest(a, v) ==
  IF Len(a) >= windowSize THEN a ELSE Append(a, v)

\* _p: push, and drop the oldest entry beyond windowSize.
Push(a, v) ==
  LET b == Append(a, v) IN IF Len(b) > windowSize THEN Tail(b) ELSE b

RECURSIVE SumSeq(_)
SumSeq(q) == IF q = <<>> THEN 0 ELSE Head(q) + SumSeq(Tail(q))

\* _tier
Tier(p) == IF p >= 70 THEN "safe" ELSE IF p >= 35 THEN "moderate" ELSE "risky"

\* Clamp without its upper limit.
ClampFromBelow(lo, hi, x) == Max(lo, x)

\* Math.max(lo, Math.min(hi, x))
Clamp(lo, hi, x) == Max(lo, Min(hi, x))

\* One weight of _recalc: 1.0 when _wr is -1 (fewer than minSamples
\* entries), else clamp(lo, hi, base + (w/100)*slope), with base, slope,
\* lo and hi in tenths.
Weight(o, base, slope, lo, hi) ==
  IF Len(o) < minSamples THEN WeightUnit
  ELSE LET n == Len(o)
           u == WeightUnit \div 10
       IN Clamp(lo * u, hi * u, (u * (base * n + slope * SumSeq(o))) \div n)

\* wrm of _recalc, in hundredths, from the global win rate.
WinRateMult(e) ==
  LET w == 100 * e.totalWins
      b == e.tb
  IN IF b = 0 THEN 100
     ELSE IF w < 25 * b THEN 135
     ELSE IF w < 35 * b THEN 120
     ELSE IF w < 45 * b THEN 108
     ELSE IF w < 55 * b THEN 100
     ELSE IF w < 65 * b THEN 92
     ELSE IF w < 75 * b THEN 85
     ELSE 78

\* A variant of sm in which a fifth win tightens instead of loosening.
StreakMultTight(e) ==
  IF e.cl >= 5 THEN 130
  ELSE IF e.cl >= 3 THEN 115
  ELSE IF e.cw >= 5 THEN 95
  ELSE IF e.cw >= 3 THEN 90
  ELSE 100

\* sm of _recalc, in hundredths, from the streak counters.
StreakMult(e) ==
  IF e.cl >= 5 THEN 130
  ELSE IF e.cl >= 3 THEN 115
  ELSE IF e.cw >= 5 THEN 82
  ELSE IF e.cw >= 3 THEN 90
  ELSE 100

\* Mode with the band around 1.0 closed up.
ModeUnitBand(tb, em) ==
  IF tb < minSamples THEN "LEARNING"
  ELSE IF em > 10000 THEN "DEFENSIVE"
  ELSE IF em < 10000 THEN "AGGRESSIVE"
  ELSE "NORMAL"

\* state.mode of _recalc, from totalBets and the edge multiplier.
Mode(tb, em) ==
  IF tb < minSamples THEN "LEARNING"
  ELSE IF em > 11500 THEN "DEFENSIVE"
  ELSE IF em < 8800 THEN "AGGRESSIVE"
  ELSE "NORMAL"

\* _recalc
EngineRecalc(e) ==
  LET em == Clamp(5500, 17000, WinRateMult(e) * StreakMult(e))
  IN [e EXCEPT
        !.state =
          [edgeMultiplier |-> em,
           positionSizeMultiplier |-> SizeMult100(e),
           directionBias |->
             [k \in Directions |-> Weight(e.directionOutcomes[k], 4, 14, 3, 16)],
           volWeights |->
             [k \in VolKeys |->
                IF k \in BaseVolKeys \/ e.volOutcomes[k] # <<>>
                THEN Weight(e.volOutcomes[k], 4, 13, 4, 15)
                ELSE e.state.volWeights[k]],
           timeWeights |->
             [k \in TimeWindows |-> Weight(e.timeOutcomes[k], 5, 11, 5, 14)],
           mode |-> Mode(e.tb, em)]]

\* recordOutcome with the loss run left standing by a win.
EngineRecordNoReset(e, bet) ==
  LET won == IF bet.won THEN 1 ELSE 0
      n   == IF bet.contracts = 0 THEN 1 ELSE bet.contracts
      pnl == IF bet.pnl # 0 THEN bet.pnl
             ELSE IF bet.won THEN (100 - bet.buyPrice) * n
             ELSE -(bet.buyPrice * n)
      dir == IF bet.direction = "" THEN "NEUTRAL" ELSE bet.direction
      vol == IF bet.volRegime = "" THEN "medium" ELSE bet.volRegime
      cw1 == IF bet.won THEN e.cw + 1 ELSE 0
      cl1 == IF bet.won THEN e.cl ELSE e.cl + 1
      h1  == Append(e.history, [won |-> won, pnl |-> pnl,
                                streak |-> IF bet.won THEN cw1 ELSE -cl1])
  IN EngineRecalc(
       [e EXCEPT
          !.directionOutcomes[dir] = Push(@, won),
          !.tierOutcomes[Tier(bet.buyPrice)] = Push(@, won),
          !.volOutcomes[vol] = Push(@, won),
          !.timeOutcomes[bet.tw] = Push(@, won),
          !.cw = cw1, !.cl = cl1,
          !.peakWinStreak = Max(@, cw1),
          !.worstLossStreak = Max(@, cl1),
          !.tb = @ + 1,
          !.totalWins = @ + won,
          !.totalLosses = @ + (1 - won),
          !.totalPnL = @ + pnl,
          !.history = IF Len(h1) > HistoryCap THEN Tail(h1) ELSE h1])

\* recordOutcome(bet).  bet.tw is the time window of the clock at the call
\* (the scalper passes no placedAt); bet.pnl is in cents, 0 when absent.
EngineRecord(e, bet) ==
  LET won == IF bet.won THEN 1 ELSE 0
      n   == IF bet.contracts = 0 THEN 1 ELSE bet.contracts
      pnl == IF bet.pnl # 0 THEN bet.pnl
             ELSE IF bet.won THEN (100 - bet.buyPrice) * n
             ELSE -(bet.buyPrice * n)
      dir == IF bet.direction = "" THEN "NEUTRAL" ELSE bet.direction
      vol == IF bet.volRegime = "" THEN "medium" ELSE bet.volRegime
      cw1 == IF bet.won THEN e.cw + 1 ELSE 0
      cl1 == IF bet.won THEN 0 ELSE e.cl + 1
      h1  == Append(e.history, [won |-> won, pnl |-> pnl,
                                streak |-> IF bet.won THEN cw1 ELSE -cl1])
  IN EngineRecalc(
       [e EXCEPT
          !.directionOutcomes[dir] = Push(@, won),
          !.tierOutcomes[Tier(bet.buyPrice)] = Push(@, won),
          !.volOutcomes[vol] = Push(@, won),
          !.timeOutcomes[bet.tw] = Push(@, won),
          !.cw = cw1, !.cl = cl1,
          !.peakWinStreak = Max(@, cw1),
          !.worstLossStreak = Max(@, cl1),
          !.tb = @ + 1,
          !.totalWins = @ + won,
          !.totalLosses = @ + (1 - won),
          !.totalPnL = @ + pnl,
          !.history = IF Len(h1) > HistoryCap THEN Tail(h1) ELSE h1])

\* serialize(): the object JSON.stringify is given, under its short keys.
\* Integers, arrays of integers and strings survive JSON unchanged; a key
\* whose value is undefined is dropped, which the weight 0 stands for.
EngineSerialize(e) ==
  [d |-> e.directionOutcomes, t |-> e.tierOutcomes, v |-> e.volOutcomes,
   tm |-> e.timeOutcomes, cw |-> e.cw, cl |-> e.cl, pw |-> e.peakWinStreak,
   wl |-> e.worstLossStreak, tb |-> e.tb, tw2 |-> e.totalWins,
   tl |-> e.totalLosses, tp |-> e.totalPnL, h |-> e.history, s |-> e.state]

\* A variant of restore that does not read the streak counters.
EngineRestoreNoStreak(e, j) ==
  EngineRecalc(
    [e EXCEPT
       !.directionOutcomes = j.d, !.tierOutcomes = j.t, !.volOutcomes = j.v,
       !.timeOutcomes = j.tm,
       !.peakWinStreak = j.pw, !.worstLossStreak = j.wl,
       !.tb = j.tb, !.totalWins = j.tw2, !.totalLosses = j.tl,
       !.totalPnL = j.tp, !.history = j.h, !.state = j.s])

\* restore(j) on the engine e, for a j that parses: every key is read
\* back, state is merged key by key ({...this.state, ...d.s}, and d.s has
\* every key), then _recalc().
EngineRestore(e, j) ==
  EngineRecalc(
    [e EXCEPT
       !.directionOutcomes = j.d, !.tierOutcomes = j.t, !.volOutcomes = j.v,
       !.timeOutcomes = j.tm, !.cw = j.cw, !.cl = j.cl,
       !.peakWinStreak = j.pw, !.worstLossStreak = j.wl,
       !.tb = j.tb, !.totalWins = j.tw2, !.totalLosses = j.tl,
       !.totalPnL = j.tp, !.history = j.h, !.state = j.s])

\* A variant of EngineRestoreText in which a text that does not parse is
\* taken for an empty snapshot of an engine past its learning phase.
EngineRestoreTextReset(e, text) ==
  IF text = <<>> THEN [e EXCEPT !.state.mode = "NORMAL"]
  ELSE EngineRestore(e, text[1])

\* restore(text): text is <<j>> when JSON.parse gives j, and <<>> when it
\* throws; the catch of restore then leaves the engine as it was.
EngineRestoreText(e, text) ==
  IF text = <<>> THEN e ELSE EngineRestore(e, text[1])

\* One factor of getAdjustedEdge: m *= (2.0 - weight) when the context
\* names a key and the weight is there; m in 1/10000, rounded down.
Adjust(m, key, weights) ==
  IF key # "" /\ weights[key] # 0
  THEN (m * (2 * WeightUnit - weights[key])) \div WeightUnit
  ELSE m

\* 10000 * getAdjustedEdge(base, ctx), base in thousandths.
AdjustedEdge(e, base, ctx) ==
  LET m1 == Adjust(e.state.edgeMultiplier, ctx.direction, e.state.directionBias)
      m2 == Adjust(m1, ctx.volRegime, e.state.volWeights)
      m3 == Adjust(m2, ctx.timeWindow, e.state.timeWeights)
  IN base * Clamp(4000, 25000, m3)

\* ------------------------------------------------------------ _analyze
\* The edge search of _analyze (lines 965-1027) for a market with asks
\* yesAsk and noAsk in cents (0 when there is none) and the model's
\* probability yesProb in thousandths; tw is getCurrentTimeWindow().
\* <<>> stands for null.  edge and modelProb are rounded to three
\* decimals by the code, which whole thousandths already are.
Analyze(mk, tw) ==
  LET noProb  == 1000 - mk.yesProb
      yesOk   == mk.yesAsk # 0 /\ mk.yesProb > 10 * mk.yesAsk + 50
      yesEdge == IF yesOk THEN mk.yesProb - 10 * mk.yesAsk ELSE 0
      noOk    == mk.noAsk # 0 /\ noProb > 10 * mk.noAsk + 50
      noEdge  == noProb - 10 * mk.noAsk
      takeNo  == noOk /\ (~yesOk \/ noEdge > yesEdge)
      side    == IF takeNo THEN "no" ELSE IF yesOk THEN "yes" ELSE ""
      price   == IF takeNo THEN mk.noAsk ELSE mk.yesAsk
      prob    == IF takeNo THEN noProb ELSE mk.yesProb
      edge    == IF takeNo THEN noEdge ELSE yesEdge
      \* 10000 * netPayout = (100 - price) * (10000 - 7 * price)
      net     == (100 - price) * (10000 - 7 * price)
  IN IF side = "" \/ edge < 50 THEN <<>>
     ELSE IF net < 20000 THEN <<>>
     ELSE IF prob * net <= (1000 - prob) * price * 10000 THEN <<>>
     ELSE <<[Opp(mk.ticker, side, price, edge, prob, mk.minsLeft)
               EXCEPT !.ticker = mk.ticker] @@
            [direction |-> IF side = "yes" THEN "UP" ELSE "DOWN",
             volRegime |-> IF edge < 100 THEN "micro" ELSE "scalp",
             timeWindow |-> tw]>>

\* ------------------------------------------- the engine on its own
\* Outcomes recorded in one behaviour.
MaxOutcomes == 6

\* The bets recordOutcome is given, as the scalper builds them at
\* settlement, with the time window of the clock at the call.
Bets ==
  {[direction |-> "UP", volRegime |-> "scalp", buyPrice |-> 40,
    contracts |-> 2, pnl |-> 0, tw |-> "morning", won |-> w] : w \in BOOLEAN}
  \cup
  {[direction |-> "DOWN", volRegime |-> "micro", buyPrice |-> 75,
    contracts |-> 1, pnl |-> 0, tw |-> "evening", won |-> w] : w \in BOOLEAN}

\* Markets _analyze is given: a thin edge on yes, no edge, a wide edge on no.
Markets ==
  {[ticker |-> "A", yesAsk |-> 40, noAsk |-> 62, yesProb |-> 470, minsLeft |-> 1],
   [ticker |-> "A", yesAsk |-> 40, noAsk |-> 62, yesProb |-> 440, minsLeft |-> 1],
   [ticker |-> "B", yesAsk |-> 62, noAsk |-> 40, yesProb |-> 450, minsLeft |-> 4]}

\* Values of cfg.minEdge, in thousandths: the default and MIN_EDGE=0.10.
MinEdges == {20, 100}

\* Nothing has been called yet.
NoCall ==
  [op |-> "none", out |-> <<>>, min |-> 0, before |-> FreshEngine]

\* ---------------------------------------------------------- YoloEngine
\* Runs of _runCycle that may be suspended at the same time, bets a cycle
\* may decide on, bets over the whole run, pause() calls, and 5 s timeouts
\* of the catch of _runCycle pending at the same time.
MaxYoloRuns == 2
YoloRuns == 1..MaxYoloRuns
MaxYoloBets == 2
MaxYoloOrders == 2
MaxPauseCalls == 2
MaxErrTimers == 1

DestructModes == {"withdraw", "halt", "nuke"}

\* Where the bankroll stands against the checks of _runCycle: at or below
\* zero, at or above config.targetBankroll, or between.
Levels == {"zero", "some", "target"}

\* A run of _runCycle that is not suspended.  todo counts the bets of the
\* loop not done yet.
YoloIdle == [pc |-> "idle", todo |-> 0]

\* What the last step of the YoloEngine did:
\*   submit  createOrder was called
\*   sim     _simulateBet ran
\*   died    _selfDestruct reached its end
\*   asked   cancelAllOrders was called
YoloNoEvents ==
  [submit |-> FALSE, sim |-> FALSE, died |-> FALSE, asked |-> FALSE]

\* The engine after its constructor.  start is the position of start();
\* level, expired, venueOpen (orders resting at the venue) are the
\* engine's surroundings; planned, userPaused, pauses, dead, halted and ev
\* are history.
FreshYolo(dry, mode) ==
  [state |-> "IDLE", dryRun |-> dry, destructMode |-> mode,
   scanInterval |-> FALSE, positionCheckInterval |-> FALSE,
   start |-> "idle", run |-> [r \in YoloRuns |-> YoloIdle],
   check |-> "idle", errTimers |-> 0,
   level |-> "some", expired |-> FALSE, venueOpen |-> 0,
   planned |-> 0, userPaused |-> FALSE, pauses |-> 0, dead |-> FALSE,
   ev |-> YoloNoEvents]

\* stop(): both intervals cleared, state IDLE.
YoloStop(y) ==
  [y EXCEPT !.scanInterval = FALSE, !.positionCheckInterval = FALSE,
            !.state = "IDLE"]

\* _selfDestruct after the switch on destructMode.
YoloDead(y, r) ==
  [y EXCEPT !.state = "DEAD", !.dead = TRUE, !.ev.died = TRUE,
            !.run[r] = YoloIdle]

\* _selfDestruct up to its first venue call: _destructWithdraw calls
\* cancelAllOrders only when not in dry-run.
YoloSelfDestruct(y, r) ==
  LET y1 == [y EXCEPT !.state = "SELF_DESTRUCTING", !.scanInterval = FALSE,
                      !.positionCheckInterval = FALSE]
  IN IF y.destructMode \in {"withdraw", "nuke"} /\ ~y.dryRun
     THEN [y1 EXCEPT !.run[r].pc = "cancelAll", !.ev.asked = TRUE]
     ELSE YoloDead(y1, r)

\* _runCycle up to its first await.
YoloRunCycle(y, r) ==
  IF y.state \in {"PAUSED", "DEAD"} THEN y
  ELSE IF y.expired THEN YoloSelfDestruct(y, r)
  ELSE IF y.level = "target"
  THEN YoloStop([y EXCEPT !.state = "TARGET_HIT"])
  ELSE IF y.level = "zero" /\ ~y.dryRun THEN YoloSelfDestruct(y, r)
  ELSE [y EXCEPT !.state = "SCANNING", !.run[r].pc = "scan"]

\* _executeBet up to its first await.
YoloExecuteBet(y, r) ==
  [y EXCEPT !.state = "BETTING", !.run[r].pc = "getOrderbook"]

\* The catch of _runCycle: state ERROR and a 5 s timeout.
YoloCatch(y, r) ==
  [y EXCEPT !.state = "ERROR", !.errTimers = @ + 1, !.run[r] = YoloIdle]

\* ---------------------------------------------------------------- Init
\* The scalper after its constructor.
InitScalper ==
  /\ dryRun \in BOOLEAN
  /\ running = FALSE
  /\ startTime = 0
  /\ intervals = 0
  /\ oneShots = 0
  /\ starting = [balance |-> 0, price |-> 0]
  /\ started = FALSE
  /\ cycleCount = 0
  /\ now = 0
  /\ bankroll = startBankroll
  /\ peak = startBankroll
  /\ pausedUntil = 0
  /\ orders = <<>>
  /\ active = {}
  /\ activeTickers = {}
  /\ totalWins = 0
  /\ totalLosses = 0
  /\ streak = 0
  /\ corr = [tb |-> 0, cw |-> 0, cl |-> 0]
  /\ tick = [t \in Ticks |-> Idle]
  /\ settled = [i \in 1..MaxOrders |-> 0]
  /\ exited = [i \in 1..MaxOrders |-> 0]
  /\ hist = [terminated |-> FALSE, firedAt |-> -1, waiting |-> {},
            ev |-> NoEvents]

\* The state after the constructor.
InitBase ==
  /\ InitScalper
  /\ engine = FreshEngine
  /\ last = NoCall

Init == InitBase /\ yolo = FreshYolo(FALSE, "withdraw")

\* ------------------------------------------------------------- actions
\* The engine's state at the start of a step.
W0 == [World EXCEPT !.hist = Fresh(hist)]

\* A step of the run in slot t that ends in r.
TickStep(t, r) ==
  /\ SetWorld(r.w)
  /\ tick' = [tick EXCEPT ![t] = r.l]
  /\ UNCHANGED <<dryRun, startTime, oneShots, starting, started, cycleCount, now,
                 bench>>

\* Time passes.  The clock starts with the call of start().
AdvanceTime ==
  /\ started
  /\ now < MaxTime
  /\ now' = now + 1
  /\ hist' = Fresh(hist)
  /\ UNCHANGED <<dryRun, running, startTime, intervals, oneShots, starting,
                 started, cycleCount, bankroll, peak, pausedUntil, orders, active, activeTickers,
                 totalWins, totalLosses, streak, corr, tick, settled, exited,
                 bench>>

\* start() up to its first await (getBalance).  A behaviour is one life of
\* the engine: start() is called once.
StartCall ==
  /\ ~running
  /\ ~started
  /\ started' = TRUE
  /\ running' = TRUE
  /\ startTime' = now
  /\ starting' = [starting EXCEPT !.balance = @ + 1]
  /\ hist' = [Fresh(hist) EXCEPT !.terminated = FALSE]
  /\ UNCHANGED <<dryRun, intervals, oneShots, cycleCount, now, bankroll,
                 peak, pausedUntil, orders, active, activeTickers, totalWins,
                 totalLosses, streak, corr, tick, settled, exited, bench>>

\* start(): getBalance returns (or fails), feed.fetchPrice() is awaited.
StartBalanceReturn ==
  /\ starting.balance > 0
  /\ starting' = [balance |-> starting.balance - 1, price |-> starting.price + 1]
  /\ \E res \in Balances \cup {-1} :
       IF res = -1 THEN UNCHANGED <<bankroll, peak>>
       ELSE bankroll' = res /\ peak' = res
  /\ hist' = Fresh(hist)
  /\ UNCHANGED <<dryRun, running, startTime, intervals, oneShots, started,
                 cycleCount, now, pausedUntil, orders, active, activeTickers, totalWins,
                 totalLosses, streak, corr, tick, settled, exited, bench>>

\* start(): fetchPrice returns; the intervals and the first-cycle timeout
\* are scheduled.
StartPriceReturn ==
  /\ starting.price > 0
  /\ starting' = [starting EXCEPT !.price = @ - 1]
  /\ intervals' = intervals + 1
  /\ oneShots' = oneShots + 1
  /\ hist' = Fresh(hist)
  /\ UNCHANGED <<dryRun, running, startTime, started, cycleCount, now,
                 bankroll, peak,
                 pausedUntil, orders, active, activeTickers, totalWins,
                 totalLosses, streak, corr, tick, settled, exited, bench>>

\* _cycle up to its first await: the guard, the two terminal checks, then
\* getBalance.
CycleEnter(w, l) ==
  IF now - startTime >= hours \/ w.bankroll >= target
  THEN [w |-> [StopEngine(w) EXCEPT !.hist.terminated = TRUE], l |-> Idle]
  ELSE [w |-> w, l |-> [Idle EXCEPT !.pc = "balance",
                                    !.sm0 = SizeMult100(w.corr)]]

\* The slot a new run of _cycle takes: the first free one.
FreeSlot(t) == tick[t].pc = "idle" /\ \A u \in Ticks : u < t => tick[u].pc # "idle"

\* A timer calls _cycle.  With running false it returns at once; otherwise
\* this._cycleCount++ and the run goes on to its first await.
CycleCall(t) ==
  /\ FreeSlot(t)
  /\ IF running
     THEN /\ cycleCount < MaxCycles
          /\ cycleCount' = cycleCount + 1
          /\ LET r == CycleEnter(W0, tick[t])
             IN SetWorld(r.w) /\ tick' = [tick EXCEPT ![t] = r.l]
     ELSE /\ SetWorld(W0)
          /\ UNCHANGED <<tick, cycleCount>>

\* The cycle interval fires.
IntervalFires(t) ==
  /\ intervals > 0
  /\ running
  /\ CycleCall(t)
  /\ UNCHANGED <<dryRun, startTime, oneShots, starting, started, now, bench>>

\* The first-cycle timeout fires.
TimeoutFires(t) ==
  /\ oneShots > 0
  /\ CycleCall(t)
  /\ oneShots' = oneShots - 1
  /\ UNCHANGED <<dryRun, startTime, starting, started, now, bench>>

\* getBalance of _cycle returns a balance or fails.
BalanceReturn(t) ==
  /\ tick[t].pc = "balance"
  /\ \E res \in Balances \cup {-1}, sig \in BOOLEAN :
       LET w == IF res = -1 THEN W0 ELSE Refresh(W0, res)
       IN TickStep(t, ResolveScan(w, tick[t], 0, sig))

\* getMarket of _checkResolutions returns: a result, resolved without a
\* result yet ("pending"), not found ("404"), or another error.
MarketReturn(t) ==
  /\ tick[t].pc = "getMarket"
  /\ \E res \in {"yes", "no", "pending", "404", "error"}, sig \in BOOLEAN :
       LET id == tick[t].cur
           w0 == [W0 EXCEPT !.hist.ev.res = res, !.hist.ev.id = id,
                            !.hist.ev.err = (res = "error"),
                            !.hist.waiting =
                               IF res = "pending" /\ id \in active
                               THEN @ \cup {id} ELSE @ \ {id}]
           w  == IF res \in {"yes", "no"} THEN Settle(w0, id, res)
                 ELSE IF res = "pending" THEN Pending(w0, id)
                 ELSE IF res = "404" THEN Gone(w0, id)
                 ELSE w0
       IN TickStep(t, ResolveScan(w, tick[t], id, sig))

\* getFills of _checkResolutions returns or fails; nothing is done with it.
FillsReturn(t) ==
  /\ tick[t].pc = "getFills"
  /\ \E sig \in BOOLEAN : TickStep(t, ManageEnter(W0, tick[t], sig))

\* Whether minsRemaining < 2 can hold: the clock counts 5-minute units and
\* the minutes within the unit are not known.
NearChoices(o) ==
  IF o.minsLeft - 5 * (now - o.at) < 2 THEN {TRUE} ELSE BOOLEAN

\* getOrderbook of _managePositions returns: a best bid, no bid (0), or an
\* error (-1).
BookReturn(t) ==
  /\ tick[t].pc = "getOrderbook"
  /\ \E res \in Bids \cup {0, -1}, sig \in BOOLEAN :
     \E near \in NearChoices(orders[tick[t].cur]) :
       LET l  == tick[t]
           o  == orders[l.cur]
           why == IF res <= 0 THEN "NONE"
                  ELSE ExitReason(l.em, res - o.price, l.sl, near, res)
           w0 == [W0 EXCEPT !.hist.ev.id = l.cur,
                            !.hist.ev.err = (res = -1),
                            !.hist.ev.bid = Max(0, res),
                            !.hist.ev.why = why]
           w1 == IF why = "NONE" /\ l.dd60
                 THEN [w0 EXCEPT !.hist.ev.emSkip = TRUE,
                                 !.hist.ev.emMiss = (res > 0)]
                 ELSE IF why = "EMERGENCY" /\ ~l.dd60
                 THEN [w0 EXCEPT !.hist.ev.forced = TRUE]
                 ELSE w0
       IN IF why = "NONE"
          THEN TickStep(t, ManageScan(w1, l, l.cur, sig))
          ELSE TickStep(t, [w |-> w1,
                            l |-> [l EXCEPT !.pc = "sell", !.bid = res,
                                            !.reason = why]])

\* placeOrder (sell) of _managePositions returns or fails; the 200 ms
\* rate-limit sleep follows in both cases.
SellReturn(t) ==
  /\ tick[t].pc = "sell"
  /\ \E ok \in BOOLEAN :
       LET l == tick[t]
           w0 == [W0 EXCEPT !.hist.ev.id = l.cur, !.hist.ev.bid = l.bid,
                            !.hist.ev.exit = TRUE]
           w == IF ok THEN EarlyExit(w0, l.cur, l.bid) ELSE W0
       IN TickStep(t, [w |-> w, l |-> [l EXCEPT !.pc = "sleep", !.bid = 0,
                                                !.reason = "NONE"]])

\* The rate-limit sleep ends.
SleepReturn(t) ==
  /\ tick[t].pc = "sleep"
  /\ \E sig \in BOOLEAN :
       TickStep(t, ManageScan(W0, tick[t], tick[t].cur, sig))

\* cancelOrder of _cancelStale returns or fails; the order is dropped in
\* both cases.  fill is what the venue held when the call arrived: the
\* buy order still resting (now cancelled), or filled (nothing to cancel,
\* the call fails and the failure is swallowed).
CancelReturn(t) ==
  /\ tick[t].pc = "cancelOrder"
  /\ \E sig \in BOOLEAN, fill \in {"filled", "resting"} :
       LET id == tick[t].cur
           w0 == [W0 EXCEPT !.hist.ev.id = id,
                            !.hist.ev.res = fill,
                            !.hist.ev.cancelled = TRUE,
                            !.hist.ev.dropped =
                               /\ id \in hist.waiting
                               /\ \A u \in Ticks :
                                    ~(tick[u].pc = "getMarket"
                                      /\ tick[u].cur = id)]
       IN TickStep(t, CancelScan(StaleDrop(w0, id), tick[t], id, sig))

\* Discovery and analysis of _findAndBet return the scored list, or throw;
\* then slots is read and the placing loop starts.
ScanReturn(t) ==
  /\ tick[t].pc = "scan"
  /\ \/ TickStep(t, CatchCycle(W0, tick[t]))
     \/ \E s \in ScoredLists :
          LET todo == Slice(s, maxBets - Cardinality(active))
          IN /\ Len(orders) + Len(todo) <= MaxOrders
             /\ TickStep(t, PlaceScan(W0, [tick[t] EXCEPT !.todo = todo]))

\* ScanReturn with the analysis spelt out: discovery throws, or it returns
\* and the candidates are analysed one by one and the scored list is
\* sorted; then slots is read and the placing loop starts.
AnalysedReturn(t) ==
  /\ tick[t].pc = "scan"
  /\ \/ TickStep(t, CatchCycle(W0, tick[t]))
     \/ \E rs \in AnalysisRuns, s \in ScoredLists :
          LET todo == Slice(s, maxBets - Cardinality(active))
              w0 == [W0 EXCEPT !.hist.ev.analysed = rs]
          IN /\ SortOf(s, Scored(rs))
             /\ Len(orders) + Len(todo) <= MaxOrders
             /\ TickStep(t, PlaceScan(w0, [tick[t] EXCEPT !.todo = todo]))

\* placeOrder (buy) of _place returns an order or fails.
PlaceReturn(t) ==
  /\ tick[t].pc = "placeOrder"
  /\ \E ok \in BOOLEAN :
       LET l == tick[t]
           rest == [l EXCEPT !.todo = Tail(@), !.cts = 0]
       IN /\ ok => Len(orders) < MaxOrders
          /\ TickStep(t, PlaceScan(IF ok THEN Insert(W0, Head(l.todo), l.cts, now)
                                   ELSE W0, rest))

\* Every step but the return of discovery and analysis.
Lifecycle ==
  \/ AdvanceTime
  \/ StartCall
  \/ StartBalanceReturn
  \/ StartPriceReturn
  \/ \E t \in Ticks :
       \/ IntervalFires(t)
       \/ TimeoutFires(t)
       \/ BalanceReturn(t)
       \/ MarketReturn(t)
       \/ FillsReturn(t)
       \/ BookReturn(t)
       \/ SellReturn(t)
       \/ SleepReturn(t)
       \/ CancelReturn(t)
       \/ PlaceReturn(t)

Next == Lifecycle \/ \E t \in Ticks : ScanReturn(t)

Spec == Init /\ [][Next]_vars

\* The live engine under a venue that answers: while a venue call or the
\* sleep of some run of _cycle is pending, one of them returns or fails in
\* the end.  Nothing is assumed of the timers or of the clock.
VenueReturn ==
  \E t \in Ticks :
    \/ BalanceReturn(t)
    \/ MarketReturn(t)
    \/ FillsReturn(t)
    \/ BookReturn(t)
    \/ SellReturn(t)
    \/ SleepReturn(t)
    \/ CancelReturn(t)

\* The liveness is checked with one run of _cycle in flight at a time and
\* one position opened in the engine's life.
MaxLiveTicks == 1
MaxLiveOrders == 1

NextLive ==
  \/ AdvanceTime
  \/ StartCall
  \/ StartBalanceReturn
  \/ StartPriceReturn
  \/ \E t \in 1..MaxLiveTicks :
       \/ IntervalFires(t)
       \/ TimeoutFires(t)
       \/ BalanceReturn(t)
       \/ MarketReturn(t)
       \/ FillsReturn(t)
       \/ BookReturn(t)
       \/ SellReturn(t)
       \/ SleepReturn(t)
       \/ CancelReturn(t)
       \/ ScanReturn(t)
       \/ PlaceReturn(t) /\ Len(orders') <= MaxLiveOrders

InitLive == Init /\ dryRun = FALSE

SpecLive == InitLive /\ [][NextLive]_vars /\ WF_vars(VenueReturn)

\* The awaits of a run of _cycle that come before _cancelStale reads the
\* clock.
BeforeCancel ==
  {"balance", "getMarket", "getFills", "getOrderbook", "sell", "sleep"}

\* The same engine with the analysis loop of _findAndBet spelt out.
NextAnalysed == Lifecycle \/ \E t \in Ticks : AnalysedReturn(t)

SpecAnalysed == Init /\ [][NextAnalysed]_vars

\* The engine constructed over a saved Correction Engine file: the
\* constructor restores it (this.correction.restore of CORR_FILE).  The
\* saved engine has seen two outcomes, both losses.
RestoredCorr == [tb |-> 2, cw |-> 0, cl |-> 2]

InitRestored ==
  /\ dryRun \in BOOLEAN
  /\ running = FALSE
  /\ startTime = 0
  /\ intervals = 0
  /\ oneShots = 0
  /\ starting = [balance |-> 0, price |-> 0]
  /\ started = FALSE
  /\ cycleCount = 0
  /\ now = 0
  /\ bankroll = startBankroll
  /\ peak = startBankroll
  /\ pausedUntil = 0
  /\ orders = <<>>
  /\ active = {}
  /\ activeTickers = {}
  /\ totalWins = 0
  /\ totalLosses = 0
  /\ streak = 0
  /\ corr = RestoredCorr
  /\ tick = [t \in Ticks |-> Idle]
  /\ settled = [i \in 1..MaxOrders |-> 0]
  /\ exited = [i \in 1..MaxOrders |-> 0]
  /\ hist = [terminated |-> FALSE, firedAt |-> -1, waiting |-> {},
            ev |-> NoEvents]
  /\ engine = FreshEngine
  /\ last = NoCall
  /\ yolo = FreshYolo(FALSE, "withdraw")

SpecRestored == InitRestored /\ [][Next]_vars

\* _place exercised on its own, over bankrolls, high-water marks, stake
\* multipliers and opportunities of both sizing regimes.
PlaceBankrolls == {0, 100, 1000, 20000}
PlaceCorrs ==
  {[tb |-> 0, cw |-> 0, cl |-> 0], [tb |-> 5, cw |-> 0, cl |-> 5],
   [tb |-> 7, cw |-> 7, cl |-> 0]}
PlacePrices == {1, 40, 99}
\* Thin edges (micro sizing; 0 stands for a missing edge) and wide ones
\* (Kelly sizing; 0 stands for a missing modelProb).
PlaceOpps ==
  {Opp("A", "yes", pr, ed, 470, 4) : pr \in PlacePrices, ed \in {0, 90}}
  \cup
  {Opp("A", "yes", pr, 150, pb, 4) : pr \in PlacePrices, pb \in {0, 900}}

InitPlace ==
  /\ dryRun \in BOOLEAN
  /\ running = TRUE
  /\ startTime = 0
  /\ intervals = 1
  /\ oneShots = 0
  /\ starting = [balance |-> 0, price |-> 0]
  /\ started = TRUE
  /\ cycleCount = 1
  /\ now = 0
  /\ bankroll \in PlaceBankrolls
  /\ peak \in {bankroll, 3 * bankroll}
  /\ pausedUntil = 0
  /\ orders = <<>>
  /\ active = {}
  /\ activeTickers = {}
  /\ totalWins = 0
  /\ totalLosses = 0
  /\ streak = 0
  /\ corr \in PlaceCorrs
  /\ tick = [t \in Ticks |-> Idle]
  /\ settled = [i \in 1..MaxOrders |-> 0]
  /\ exited = [i \in 1..MaxOrders |-> 0]
  /\ hist = [terminated |-> FALSE, firedAt |-> -1, waiting |-> {},
            ev |-> NoEvents]
  /\ engine = FreshEngine
  /\ last = NoCall
  /\ yolo = FreshYolo(FALSE, "withdraw")

\* _place(opp) is called and runs to its return or to its await.
PlaceCall ==
  /\ tick[1].pc = "idle"
  /\ Len(orders) < MaxOrders
  /\ \E o \in PlaceOpps :
       TickStep(1, PlaceScan(W0, [Idle EXCEPT !.todo = <<o>>,
                                             !.sm0 = SizeMult100(corr)]))

NextPlace == PlaceCall \/ PlaceReturn(1)

SpecPlace == InitPlace /\ [][NextPlace]_vars

\* The Correction Engine and _analyze exercised on their own: outcomes are
\* recorded, the process restarts over the saved engine, markets are
\* analysed.  The scalper's own state stays as constructed.
scalper ==
  <<dryRun, running, startTime, intervals, oneShots, starting, started,
    cycleCount, now, bankroll, peak, pausedUntil, orders, active,
    activeTickers, totalWins, totalLosses, streak, corr, tick, settled,
    exited, hist>>

\* this.correction.recordOutcome(bet)
RecordCall ==
  /\ engine.tb < MaxOutcomes
  /\ \E bet \in Bets :
       /\ engine' = EngineRecord(engine, bet)
       /\ last' = [op |-> IF bet.won THEN "win" ELSE "loss", out |-> <<>>,
                   min |-> 0, before |-> engine]
  /\ UNCHANGED <<scalper, yolo>>

\* serialize() to CORR_FILE, then the constructor of the next process:
\* new CorrectionEngine() and restore() of the file.
RestoreCall ==
  /\ engine' = EngineRestore(FreshEngine, EngineSerialize(engine))
  /\ last' = [op |-> "restore", out |-> <<>>, min |-> 0, before |-> engine]
  /\ UNCHANGED <<scalper, yolo>>

\* _analyze(market, sig) under a configured minEdge.  min is
\* 10000 * getAdjustedEdge(minEdge, {direction, volRegime, timeWindow})
\* for the candidate returned, which the code does not compute.
AnalyzeCall ==
  /\ \E mk \in Markets, me \in MinEdges :
       LET out == Analyze(mk, "morning")
       IN last' = [op |-> "analyze", out |-> out,
                   min |-> IF out = <<>> THEN 0
                           ELSE AdjustedEdge(engine, me, out[1]),
                   before |-> engine]
  /\ UNCHANGED <<engine, scalper, yolo>>

\* The constructor of the next process when CORR_FILE is not there
\* (out is <<>>) or holds text that does not parse (out is <<"text">>):
\* new CorrectionEngine(), and restore() of the text in the second case.
ColdStartCall ==
  /\ \E file \in {<<>>, <<"text">>} :
       /\ engine' = IF file = <<>> THEN FreshEngine
                    ELSE EngineRestoreText(FreshEngine, <<>>)
       /\ last' = [op |-> "cold", out |-> file, min |-> 0, before |-> engine]
  /\ UNCHANGED <<scalper, yolo>>

InitEngine == Init /\ dryRun = FALSE

NextEngine == RecordCall \/ RestoreCall \/ AnalyzeCall

SpecEngine == InitEngine /\ [][NextEngine]_vars

\* start() at any time of the engine's life.  With running true it
\* returns at once (not a step); otherwise it goes to its first await,
\* whether or not an earlier call is still suspended at one.
MaxStarts == 3

StartAgain ==
  /\ ~running
  /\ oneShots + starting.balance + starting.price < MaxStarts
  /\ started' = TRUE
  /\ running' = TRUE
  /\ startTime' = now
  /\ starting' = [starting EXCEPT !.balance = @ + 1]
  /\ hist' = [Fresh(hist) EXCEPT !.terminated = FALSE]
  /\ UNCHANGED <<dryRun, intervals, oneShots, cycleCount, now, bankroll,
                 peak, pausedUntil, orders, active, activeTickers, totalWins,
                 totalLosses, streak, corr, tick, settled, exited, bench>>

\* stop() called from outside: running = false, every interval in
\* this._intervals cleared.  The pending timeout is not in that list.
StopCall ==
  /\ started
  /\ running' = FALSE
  /\ intervals' = 0
  /\ hist' = Fresh(hist)
  /\ UNCHANGED <<dryRun, startTime, oneShots, starting, started, cycleCount,
                 now, bankroll, peak, pausedUntil, orders, active,
                 activeTickers, totalWins, totalLosses, streak, corr, tick,
                 settled, exited, bench>>

\* start() and stop() in any order, around the two awaits of start().
SpecTimers ==
  Init /\ [][StartAgain \/ StopCall \/ StartBalanceReturn
              \/ StartPriceReturn \/ AdvanceTime]_vars

\* The engine over restarts with and without a usable snapshot.
SpecCold == InitEngine /\ [][RecordCall \/ RestoreCall \/ ColdStartCall]_vars

\* ------------------------------------------------- binary64 arithmetic
\* A JavaScript number that is positive and normal is [m, e]: the value
\* m * 2^e with 2^52 <= m < 2^53.  m, and the wider exact results before
\* rounding, are naturals of NLimbs limbs of LimbBits bits, the least
\* significant limb first.
LimbBits == 14
Base == 16384
NLimbs == 8
Limbs == 1..NLimbs
BitIdx == 0..(NLimbs * LimbBits - 1)

RECURSIVE Pow2(_)
Pow2(n) == IF n = 0 THEN 1 ELSE 2 * Pow2(n - 1)

\* The natural whose limbs the function f over Limbs gives, every limb
\* computed once.
Nat8(f) == <<f[1], f[2], f[3], f[4], f[5], f[6], f[7], f[8]>>

\* The natural n < Base.
Small(n) == <<n, 0, 0, 0, 0, 0, 0, 0>>

Bit(a, i) ==
  IF i \in BitIdx
  THEN (a[(i \div LimbBits) + 1] \div Pow2(i % LimbBits)) % 2
  ELSE 0

Bits(a) == {i \in BitIdx : Bit(a, i) = 1}

BitLen(a) ==
  LET S == Bits(a)
  IN IF S = {} THEN 0 ELSE 1 + CHOOSE i \in S : \A j \in S : j <= i

\* Limb k, from its bit j up, of the natural whose one-bits are S.
RECURSIVE LimbOf(_, _, _)
LimbOf(S, k, j) ==
  IF j = LimbBits THEN 0
  ELSE (IF LimbBits * (k - 1) + j \in S THEN Pow2(j) ELSE 0)
       + LimbOf(S, k, j + 1)

FromBits(S) == Nat8([k \in Limbs |-> LimbOf(S, k, 0)])

\* a * 2^s, truncated when s < 0.
Shift(a, s) == FromBits({i + s : i \in Bits(a)} \cap BitIdx)

RECURSIVE Carry(_, _, _)
Carry(a, b, k) ==
  IF k = 1 THEN 0 ELSE (a[k - 1] + b[k - 1] + Carry(a, b, k - 1)) \div Base

Add(a, b) == Nat8([k \in Limbs |-> (a[k] + b[k] + Carry(a, b, k)) % Base])

RECURSIVE Borrow(_, _, _)
Borrow(a, b, k) ==
  IF k = 1 THEN 0
  ELSE IF a[k - 1] - b[k - 1] - Borrow(a, b, k - 1) < 0 THEN 1 ELSE 0

\* a - b, for a >= b.
Sub(a, b) ==
  Nat8([k \in Limbs |-> (a[k] - b[k] - Borrow(a, b, k) + Base) % Base])

\* Column k of the product of two naturals below 2^56 (four limbs each).
Col(a, b, k) ==
  LET Term(i) == IF k + 1 - i \in 1..4 THEN a[i] * b[k + 1 - i] ELSE 0
  IN Term(1) + Term(2) + Term(3) + Term(4)

RECURSIVE MulCarry(_, _, _)
MulCarry(a, b, k) ==
  IF k = 1 THEN 0 ELSE (Col(a, b, k - 1) + MulCarry(a, b, k - 1)) \div Base

Mul(a, b) == Nat8([k \in Limbs |-> (Col(a, b, k) + MulCarry(a, b, k)) % Base])

\* The limbs k and up of a, as a natural, modulo d.
RECURSIVE RemFrom(_, _, _)
RemFrom(a, d, k) ==
  IF k > NLimbs THEN 0 ELSE (RemFrom(a, d, k + 1) * Base + a[k]) % d

\* The whole part of a / d, for d < Base.
DivSmall(a, d) ==
  Nat8([k \in Limbs |-> (RemFrom(a, d, k + 1) * Base + a[k]) \div d])

Less(a, b) ==
  \E k \in Limbs : a[k] < b[k] /\ \A j \in Limbs : j > k => a[j] = b[j]

\* DblRound with the discarded bits dropped, not rounded.
DblRoundTruncate(n, sticky, e) ==
  LET s == BitLen(n) - 53
  IN [m |-> Shift(n, -s), e |-> e + s]

\* The double nearest to (n + f) * 2^e, ties to even, where n > 0 and f is
\* 0 or, when sticky (only with n of more than 53 bits), a fraction
\* strictly between 0 and 1.
DblRound(n, sticky, e) ==
  LET s  == BitLen(n) - 53
      q  == Shift(n, -s)
      up == /\ s > 0
            /\ Bit(n, s - 1) = 1
            /\ \/ sticky
               \/ Bit(n, s) = 1
               \/ \E i \in Bits(n) : i < s - 1
      r  == IF up THEN Add(q, Small(1)) ELSE q
  IN IF BitLen(r) = 54 THEN [m |-> Shift(r, -1), e |-> e + s + 1]
     ELSE [m |-> r, e |-> e + s]

\* price / 100 for an integer price in 1..127, and the literal 0.07.
DblDiv100(p) ==
  LET n == <<0, 0, 0, 0, 16 * p, 0, 0, 0>>
  IN DblRound(DivSmall(n, 100), RemFrom(n, 100, 1) # 0, -60)

\* 1 - x for a double 0 < x < 1.
DblOneMinus(x) == DblRound(Sub(Shift(Small(1), -x.e), x.m), FALSE, x.e)

\* x * y
DblMul(x, y) == DblRound(Mul(x.m, y.m), FALSE, x.e + y.e)

\* x <= y for positive doubles.
DblLeq(x, y) == x.e < y.e \/ (x.e = y.e /\ ~Less(y.m, x.m))

\* |x - y| in units of the last place, for doubles of one exponent.
DblUlps(x, y) == IF Less(x.m, y.m) THEN Sub(y.m, x.m) ELSE Sub(x.m, y.m)

\* MarketScanner.calcFee(priceDollars)
CalcFee(d) == DblMul(DblMul(DblDiv100(7), d), DblOneMinus(d))

\* fee of _analyze: 0.07 * (price / 100) * (1 - price / 100)
Fee(price) ==
  DblMul(DblMul(DblDiv100(7), DblDiv100(price)),
         DblOneMinus(DblDiv100(price)))

\* Integer prices in cents.
Prices == 1..99

\* The fee line of _analyze for a price.  The fee depends on nothing but
\* the price, so each call is made once, from the initial state.
FeeCall ==
  /\ last.op = "none"
  /\ \E p \in Prices :
       last' = [op |-> "fee", out |-> <<[price |-> p, fee |-> Fee(p)]>>,
                min |-> 0, before |-> engine]
  /\ UNCHANGED <<engine, scalper, yolo>>

\* calcFee for a price in dollars.
CalcFeeCall ==
  /\ last.op = "none"
  /\ \E p \in Prices :
       last' = [op |-> "calcFee",
                out |-> <<[price |-> p, fee |-> CalcFee(DblDiv100(p))]>>,
                min |-> 0, before |-> engine]
  /\ UNCHANGED <<engine, scalper, yolo>>

NextFee == FeeCall \/ CalcFeeCall

SpecFee == InitEngine /\ [][NextFee]_vars

\* Streaks: outcomes of one kind of bet, long enough for every step of the
\* stake multiplier.
MaxStreak == 8

StreakCall ==
  /\ engine.tb < MaxStreak
  /\ \E bet \in {b \in Bets : b.direction = "UP"} :
       /\ engine' = EngineRecord(engine, bet)
       /\ last' = [op |-> IF bet.won THEN "win" ELSE "loss", out |-> <<>>,
                   min |-> 0, before |-> engine]
  /\ UNCHANGED <<scalper, yolo>>

NextStreak == StreakCall \/ RestoreCall

SpecStreak == InitEngine /\ [][NextStreak]_vars

\* Full windows: HistoryCap - 1 outcomes in a fixed order, windowSize - 1
\* of them of the UP bet (every fourth one) and the others of the DOWN bet,
\* one in three a win; then MaxMore outcomes of any bet.
MaxMore == 4

SeedBet(i) ==
  CHOOSE b \in Bets :
    /\ b.direction = (IF i % 4 = 1 /\ i <= 4 * (windowSize - 1)
                      THEN "UP" ELSE "DOWN")
    /\ b.won = (i % 3 = 0)

\* this.correction.recordOutcome(bet), the bet kept in last.out.
WindowCall ==
  /\ engine.tb < HistoryCap - 1 + MaxMore
  /\ \E bet \in (IF engine.tb < HistoryCap - 1
                 THEN {SeedBet(engine.tb + 1)} ELSE Bets) :
       /\ engine' = EngineRecord(engine, bet)
       /\ last' = [op |-> IF bet.won THEN "win" ELSE "loss", out |-> <<bet>>,
                   min |-> 0, before |-> engine]
  /\ UNCHANGED <<scalper, yolo>>

NextWindow == WindowCall \/ RestoreCall

SpecWindow == InitEngine /\ [][NextWindow]_vars

\* The YoloEngine on its own: start(), the two intervals, pause() and
\* resume() from the API, the clock running out, and the venue's answers.
Y0 == [yolo EXCEPT !.ev = YoloNoEvents]

YoloStep(y) ==
  /\ yolo' = y
  /\ UNCHANGED <<scalper, engine, last>>

\* start() up to the await of getBalance.
YoloStartCall ==
  /\ yolo.start = "idle"
  /\ YoloStep([Y0 EXCEPT !.state = "SCANNING", !.start = "getBalance"])

\* getBalance of start() fails in live mode (state ERROR), or it returns a
\* balance, or fails in dry-run, where config.startingBankroll is used;
\* then the first _runCycle() and the two setInterval calls.
YoloStartReturn ==
  /\ yolo.start = "getBalance"
  /\ \/ /\ ~yolo.dryRun
        /\ YoloStep([Y0 EXCEPT !.state = "ERROR", !.start = "done"])
     \/ \E lv \in Levels :
          /\ yolo.dryRun => lv = "some"
          /\ YoloStep([YoloRunCycle([Y0 EXCEPT !.start = "done",
                                               !.level = lv], 1)
                        EXCEPT !.scanInterval = TRUE,
                               !.positionCheckInterval = TRUE])

\* The scan interval fires: _runCycle() begins whatever else is suspended.
YoloIntervalFires(r) ==
  /\ yolo.scanInterval
  /\ yolo.run[r].pc = "idle"
  /\ \A q \in YoloRuns : q < r => yolo.run[q].pc # "idle"
  /\ YoloStep(YoloRunCycle(Y0, r))

\* scanner.scanMarkets() returns and the strategy decides: the call
\* throws, there is nothing to bet on, every bet is skipped, or n bets are
\* taken; in dry-run each of them is simulated on the spot.
YoloScanReturn(r) ==
  /\ yolo.run[r].pc = "scan"
  /\ \/ /\ yolo.errTimers < MaxErrTimers
        /\ YoloStep(YoloCatch(Y0, r))
     \/ YoloStep([Y0 EXCEPT !.state = "WAITING", !.run[r] = YoloIdle])
     \/ YoloStep([Y0 EXCEPT !.run[r] = YoloIdle])
     \/ \E n \in 1..MaxYoloBets, lv \in Levels :
          /\ yolo.planned + n <= MaxYoloOrders
          /\ IF yolo.dryRun
             THEN YoloStep([Y0 EXCEPT !.state = "WAITING", !.level = lv,
                                      !.planned = @ + n, !.ev.sim = TRUE,
                                      !.run[r] = YoloIdle])
             ELSE /\ lv = yolo.level
                  /\ YoloStep(YoloExecuteBet(
                        [Y0 EXCEPT !.planned = @ + n, !.run[r].todo = n], r))

\* getOrderbook of _executeBet returns or fails; createOrder is called.
YoloOrderbookReturn(r) ==
  /\ yolo.run[r].pc = "getOrderbook"
  /\ YoloStep([Y0 EXCEPT !.run[r].pc = "createOrder", !.ev.submit = TRUE])

\* createOrder returns an order, resting or executed, or fails; the 500 ms
\* sleep of the loop follows.
YoloCreateReturn(r) ==
  /\ yolo.run[r].pc = "createOrder"
  /\ \/ \E resting \in BOOLEAN :
          YoloStep([Y0 EXCEPT !.state = "WAITING", !.run[r].pc = "sleep",
                              !.venueOpen = IF resting THEN @ + 1 ELSE @])
     \/ YoloStep([Y0 EXCEPT !.state = "SCANNING", !.run[r].pc = "sleep"])

\* The sleep ends: the next bet of the loop, or the end of the cycle.
YoloSleepReturn(r) ==
  /\ yolo.run[r].pc = "sleep"
  /\ IF yolo.run[r].todo > 1
     THEN YoloStep(YoloExecuteBet([Y0 EXCEPT !.run[r].todo = @ - 1], r))
     ELSE YoloStep([Y0 EXCEPT !.run[r] = YoloIdle])

\* cancelAllOrders of _destructWithdraw returns or fails.
YoloCancelAllReturn(r) ==
  /\ yolo.run[r].pc = "cancelAll"
  /\ \E ok \in BOOLEAN :
       YoloStep(YoloDead([Y0 EXCEPT !.venueOpen = IF ok THEN 0 ELSE @], r))

\* The 5 s timeout of the catch of _runCycle fires.
YoloErrTimeout ==
  /\ yolo.errTimers > 0
  /\ YoloStep([Y0 EXCEPT !.errTimers = @ - 1,
                         !.state = IF @ = "ERROR" THEN "SCANNING" ELSE @])

\* The position interval fires: _checkPositions up to the await of
\* getBalance (one run of it at a time here).
YoloCheckCall ==
  /\ yolo.positionCheckInterval
  /\ yolo.check = "idle"
  /\ ~yolo.dryRun
  /\ yolo.state # "DEAD"
  /\ YoloStep([Y0 EXCEPT !.check = "getBalance"])

\* getBalance of _checkPositions returns a balance or fails.
YoloCheckBalanceReturn ==
  /\ yolo.check = "getBalance"
  /\ \/ YoloStep([Y0 EXCEPT !.check = "idle"])
     \/ \E lv \in Levels :
          YoloStep([Y0 EXCEPT !.level = lv, !.check = "rest"])

\* The rest of _checkPositions: positions, fills, and the cancelling of
\* orders older than 90 s.
YoloCheckRest ==
  /\ yolo.check = "rest"
  /\ \E n \in 0..yolo.venueOpen :
       YoloStep([Y0 EXCEPT !.venueOpen = n, !.check = "idle"])

\* POST /api/pause
YoloPause ==
  /\ yolo.start # "idle"
  /\ yolo.pauses < MaxPauseCalls
  /\ YoloStep([Y0 EXCEPT !.state = "PAUSED", !.userPaused = TRUE,
                         !.pauses = @ + 1])

\* POST /api/resume, after a pause.
YoloResume ==
  /\ yolo.userPaused
  /\ YoloStep([Y0 EXCEPT !.state = "SCANNING", !.userPaused = FALSE])

\* _getTimeRemaining() reaches zero.
YoloExpire ==
  /\ yolo.start # "idle"
  /\ ~yolo.expired
  /\ YoloStep([Y0 EXCEPT !.expired = TRUE])

InitYolo ==
  /\ InitBase
  /\ dryRun = FALSE
  /\ yolo \in {FreshYolo(d, m) : d \in BOOLEAN, m \in DestructModes}

NextYolo ==
  \/ YoloStartCall
  \/ YoloStartReturn
  \/ \E r \in YoloRuns :
       \/ YoloIntervalFires(r)
       \/ YoloScanReturn(r)
       \/ YoloOrderbookReturn(r)
       \/ YoloCreateReturn(r)
       \/ YoloSleepReturn(r)
       \/ YoloCancelAllReturn(r)
  \/ YoloErrTimeout
  \/ YoloCheckCall
  \/ YoloCheckBalanceReturn
  \/ YoloCheckRest
  \/ YoloPause
  \/ YoloResume
  \/ YoloExpire

SpecYolo == InitYolo /\ [][NextYolo]_vars

\* ---------------------------------------------------------------- claims
\* C1: ticks of the cycle scheduler never overlap: no run of _cycle begins
\* while another one is still awaiting a venue call.
C1_NoOverlap == Cardinality({t \in Ticks : tick[t].pc # "idle"}) <= 1

\* C2: a position observed as settled more than once is bookkept (bankroll,
\* win/loss totals, streak, Correction Engine) at most once.
C2_SettledOnce == \A id \in 1..MaxOrders : settled[id] <= 1

\* C3: for no position do early-exit bookkeeping and settlement
\* bookkeeping both occur.
C3_OneOutcome == \A id \in 1..MaxOrders : ~(settled[id] >= 1 /\ exited[id] >= 1)

\* C4: after the tick that observes the time limit or the target and stops
\* the engine, no order is placed and no position is resolved.
C4_Terminal ==
  [][hist.terminated =>
       (orders' = orders /\ settled' = settled /\ exited' = exited)]_vars

\* C5: a tick that throws leaves the engine running with its cycle timer
\* scheduled, and a slot free for the next tick.
C5_ThrowKeepsScheduler ==
  [][hist'.ev.threw =>
       /\ running' = running
       /\ intervals' = intervals
       /\ \E t \in Ticks : tick'[t].pc = "idle"]_vars

\* A tick has thrown while the engine runs with its timer scheduled.
C5_Witness == hist.ev.threw /\ running /\ intervals > 0

\* C6: the number of open positions never exceeds maxBets.
C6_MaxOpen == Cardinality(active) <= maxBets

\* C7: no buy order is submitted while the emergency pause is active.
C7_NoBuyInPause == hist.ev.buy => pausedUntil <= now

\* C8: once the 60% liquidation has fired and the open set is empty, a
\* tick that reaches the gates finds the pause set to the time of that pass
\* plus the window.
C8_CooldownHeld ==
  (hist.ev.gate /\ hist.firedAt >= 0 /\ active = {})
    => pausedUntil >= hist.firedAt + PauseWindow

RECURSIVE SumTo(_, _)
SumTo(f, n) == IF n = 0 THEN 0 ELSE f[n] + SumTo(f, n - 1)

\* C10: the outcomes recorded in the Correction Engine are as many as the
\* positions resolved by settlement plus those resolved by early exit.
C10_CorrCount == corr.tb = SumTo(settled, MaxOrders) + SumTo(exited, MaxOrders)

\* C11: every Kelly-sized order a tick places is sized with the stake
\* multiplier the Correction Engine had at the start of that tick; an
\* outcome recorded during the tick does not change it.
C11_DelayedFeedback == ~hist.ev.fedBack

\* C12: a candidate _analyze returns has an edge above the Correction
\* Engine's context-adjusted minimum getAdjustedEdge(minEdge, context).
C12_AboveAdjustedEdge ==
  (last.op = "analyze" /\ last.out # <<>>)
    => 10000 * last.out[1].edge > last.min

\* C14: restoring the output of serialize() into a fresh engine gives the
\* edge multiplier, stake multiplier, per-dimension weights and mode the
\* engine had before.
C14_RestoreFidelity == last.op = "restore" => engine.state = last.before.state

\* An engine out of its learning mode, with multipliers and weights off
\* 1.0, has been saved and restored.
C14_Witness ==
  /\ last.op = "restore"
  /\ engine.state.mode # "LEARNING"
  /\ engine.state.positionSizeMultiplier # 100
  /\ engine.state.edgeMultiplier # 10000
  /\ engine.state.directionBias["UP"] # WeightUnit

\* C15: from one loss to the next loss recorded right after it, the stake
\* multiplier does not increase.
C15_LossesShrinkStake ==
  (last.op = "loss" /\ last.before.cl >= 1)
    => engine.state.positionSizeMultiplier
         <= last.before.state.positionSizeMultiplier

\* A fifth consecutive loss has taken the stake multiplier down.
C15_Witness ==
  /\ last.op = "loss"
  /\ engine.cl = 5
  /\ engine.state.positionSizeMultiplier
       < last.before.state.positionSizeMultiplier

\* C16: from one win to the next win recorded right after it, the edge
\* multiplier does not increase, and it is never below 0.55.
C16_WinsLoosenEdge ==
  /\ engine.state.edgeMultiplier >= 5500
  /\ (last.op = "win" /\ last.before.cw >= 1)
       => engine.state.edgeMultiplier <= last.before.state.edgeMultiplier

\* A fifth consecutive win, after earlier losses, has taken the edge
\* multiplier down.
C16_Witness ==
  /\ last.op = "win"
  /\ engine.cw = 5
  /\ engine.totalLosses >= 1
  /\ engine.state.edgeMultiplier < last.before.state.edgeMultiplier

\* C13: every position _place creates has at least one contract and a
\* cost contracts*price/100 of at most 20% of the bankroll under micro
\* sizing and 15% under Kelly sizing.  The bankroll does not change in
\* SpecPlace, so it is the one _place saw.
C13_SizingBounds ==
  \A i \in 1..Len(orders) :
    /\ orders[i].contracts >= 1
    /\ IF orders[i].isMicro
       THEN 5 * orders[i].contracts * orders[i].price <= bankroll
       ELSE 100 * orders[i].contracts * orders[i].price <= 15 * bankroll

\* A Kelly-sized position of several contracts, and a micro position, have
\* been created.
C13_Witness ==
  /\ \E i \in 1..Len(orders) : ~orders[i].isMicro /\ orders[i].contracts >= 2
  /\ \E i \in 1..Len(orders) : orders[i].isMicro

\* C17: a resolution poll that sees a declared result changes the bankroll
\* by (100 - price) * contracts cents when the result is the position's
\* side and by -price * contracts cents otherwise, adds one to the win or
\* the loss total, moves the streak, and takes the position out of the
\* open set.
C17_SettlementPnl ==
  [][hist'.ev.res \in {"yes", "no"} =>
       LET o   == orders[hist'.ev.id]
           won == hist'.ev.res = o.side
           pnl == IF won THEN (100 - o.price) * o.contracts
                  ELSE -(o.price * o.contracts)
       IN /\ bankroll' = bankroll + pnl
          /\ totalWins' = totalWins + (IF won THEN 1 ELSE 0)
          /\ totalLosses' = totalLosses + (IF won THEN 0 ELSE 1)
          /\ streak' = IF won THEN Max(0, streak) + 1 ELSE Min(0, streak) - 1
          /\ hist'.ev.id \notin active']_vars

\* A position has just been settled as a win, after an earlier loss.
C17_Witness ==
  /\ hist.ev.res \in {"yes", "no"}
  /\ hist.ev.res = orders[hist.ev.id].side
  /\ totalLosses >= 1
  /\ streak = 1

\* C18: an accepted early exit at bid b of a position entered at price e
\* with n contracts changes the bankroll by (b - e) * n cents and counts as
\* a win, with the win streak incremented, exactly when b > e; an order
\* book that shows a bid with b - e >= 6 always leads to a sell request
\* (take-profit, or the emergency reason that precedes it); and e = 40,
\* n = 2, b = 47 takes a bankroll of $100 to $100.14 with a streak of 1.
C18_EarlyExitBooks ==
  [][/\ hist'.ev.exit =>
          LET o   == orders[hist'.ev.id]
              per == hist'.ev.bid - o.price
          IN /\ bankroll' = bankroll + per * o.contracts
             /\ hist'.ev.id \notin active'
             /\ IF per > 0
                THEN /\ totalWins' = totalWins + 1
                     /\ totalLosses' = totalLosses
                     /\ streak' = Max(0, streak) + 1
                ELSE /\ totalWins' = totalWins
                     /\ totalLosses' = totalLosses + 1
                     /\ streak' = Min(0, streak) - 1
     /\ (/\ ~hist'.ev.exit
         /\ hist'.ev.bid > 0
         /\ hist'.ev.bid - orders[hist'.ev.id].price >= 6) =>
          /\ hist'.ev.why \in {"TP", "EMERGENCY"}
          /\ \E t \in Ticks : /\ tick'[t].pc = "sell"
                               /\ tick'[t].cur = hist'.ev.id
                               /\ tick'[t].bid = hist'.ev.bid
     /\ LET o == [ticker |-> "A", side |-> "yes", price |-> 40,
                  contracts |-> 2, isMicro |-> FALSE, minsLeft |-> 4,
                  at |-> 0]
            w == [World EXCEPT !.bankroll = 10000, !.peak = 10000,
                               !.streak = 0, !.orders = <<o>>,
                               !.active = {1}, !.activeTickers = {"A"}]
            x == EarlyExit(w, 1, 47)
        IN /\ ExitReason(FALSE, 47 - 40, -10, FALSE, 47) = "TP"
           /\ x.bankroll = 10014
           /\ x.streak = 1
           /\ x.totalWins = w.totalWins + 1
           /\ x.active = {}]_vars

\* A position of two or more contracts has just been sold 7 above its
\* entry price, after an earlier losing exit.
C18_Witness ==
  /\ hist.ev.exit
  /\ hist.ev.bid - orders[hist.ev.id].price >= 6
  /\ orders[hist.ev.id].contracts >= 2
  /\ totalLosses >= 1
  /\ streak = 1

\* C19: a resolution poll answered with not-found takes the position out
\* of the open set and its ticker out of the ticker set, and leaves the
\* bankroll, the win and loss totals, the streak and the Correction Engine
\* as they were.
C19_GoneNotCounted ==
  [][hist'.ev.res = "404" =>
       /\ hist'.ev.id \notin active'
       /\ orders[hist'.ev.id].ticker \notin activeTickers'
       /\ bankroll' = bankroll
       /\ peak' = peak
       /\ totalWins' = totalWins
       /\ totalLosses' = totalLosses
       /\ streak' = streak
       /\ corr' = corr
       /\ settled' = settled
       /\ exited' = exited]_vars

\* A position has just been dropped on a not-found answer while another
\* one stays open, after an earlier outcome was booked.
C19_Witness ==
  /\ hist.ev.res = "404"
  /\ hist.ev.id \notin active
  /\ active # {}
  /\ corr.tb >= 1

\* C20: a resolution poll that finds the market resolved without a result
\* leaves the open set, the bankroll, the totals, the streak and the
\* Correction Engine as they were, and the position stays open to be
\* polled again: it is not dropped before another poll of it.
C20_PendingRepolled ==
  [][/\ hist'.ev.res = "pending" =>
          /\ active' = active
          /\ activeTickers' = activeTickers
          /\ bankroll' = bankroll
          /\ peak' = peak
          /\ totalWins' = totalWins
          /\ totalLosses' = totalLosses
          /\ streak' = streak
          /\ corr' = corr
     /\ ~hist'.ev.dropped]_vars

\* C21: when _cancelStale has processed an order older than 300 s, the
\* order is out of the open set and its ticker out of the ticker set, the
\* open set (whose size is what the maximum-positions limit counts) holds
\* exactly the other positions, and bankroll, peak, totals, streak and
\* Correction Engine are unchanged.
C21_StaleReleased ==
  [][hist'.ev.cancelled =>
       /\ active' = active \ {hist'.ev.id}
       /\ activeTickers' = activeTickers \ {orders[hist'.ev.id].ticker}
       /\ bankroll' = bankroll
       /\ peak' = peak
       /\ totalWins' = totalWins
       /\ totalLosses' = totalLosses
       /\ streak' = streak
       /\ corr' = corr]_vars

\* The only open position has just been cancelled as stale, and the run
\* went on through the maximum-positions gate to the market scan.
C21_Witness ==
  /\ hist.ev.cancelled
  /\ hist.ev.gate
  /\ active = {}
  /\ orders[hist.ev.id].ticker \notin activeTickers
  /\ \E t \in Ticks : tick[t].pc = "scan"

\* C22, as stated: after every recordOutcome or restore the mode is
\* LEARNING iff fewer than minSamples outcomes were seen, and otherwise
\* AGGRESSIVE iff the edge multiplier is below 1, DEFENSIVE iff it is
\* above 1, NORMAL iff it is 1.
C22_ModeBySign ==
  last.op \in {"win", "loss", "restore"} =>
    LET em == engine.state.edgeMultiplier
    IN engine.state.mode =
         IF engine.tb < minSamples THEN "LEARNING"
         ELSE IF em < 10000 THEN "AGGRESSIVE"
         ELSE IF em > 10000 THEN "DEFENSIVE"
         ELSE "NORMAL"

\* C22, amended: after every recordOutcome or restore the mode is LEARNING
\* iff fewer than minSamples outcomes were seen, and otherwise DEFENSIVE
\* iff the edge multiplier is above 1.15, AGGRESSIVE iff it is below 0.88,
\* NORMAL in between.
C22_ModeByBand ==
  last.op \in {"win", "loss", "restore"} =>
    LET em == engine.state.edgeMultiplier
    IN /\ engine.state.mode = "LEARNING" <=> engine.tb < minSamples
       /\ engine.state.mode = "DEFENSIVE"
            <=> (engine.tb >= minSamples /\ em > 11500)
       /\ engine.state.mode = "AGGRESSIVE"
            <=> (engine.tb >= minSamples /\ em < 8800)
       /\ engine.state.mode = "NORMAL"
            <=> (engine.tb >= minSamples /\ em >= 8800 /\ em <= 11500)

\* Past the learning phase, an outcome has left the edge multiplier below
\* 1 but inside the band, and the mode NORMAL.
C22_Witness ==
  /\ last.op \in {"win", "loss"}
  /\ engine.tb >= minSamples
  /\ engine.state.edgeMultiplier < 10000
  /\ engine.state.edgeMultiplier >= 8800
  /\ engine.state.mode = "NORMAL"

\* C23, as stated: after every recordOutcome the stake multiplier is 0.35
\* from 5 consecutive losses, 0.55 from 3, 1.40 from 7 consecutive wins,
\* 1.12 from 3, and 1.0 otherwise.
C23_FourSteps ==
  last.op \in {"win", "loss"} =>
    engine.state.positionSizeMultiplier =
      IF engine.cl >= 5 THEN 35
      ELSE IF engine.cl >= 3 THEN 55
      ELSE IF engine.cw >= 7 THEN 140
      ELSE IF engine.cw >= 3 THEN 112
      ELSE 100

\* C23, amended: after every recordOutcome the stake multiplier is 0.35
\* from 5 consecutive losses, 0.55 from 3, 1.40 from 7 consecutive wins,
\* 1.25 from 5, 1.12 from 3, and 1.0 otherwise.
C23_FiveSteps ==
  last.op \in {"win", "loss"} =>
    engine.state.positionSizeMultiplier =
      IF engine.cl >= 5 THEN 35
      ELSE IF engine.cl >= 3 THEN 55
      ELSE IF engine.cw >= 7 THEN 140
      ELSE IF engine.cw >= 5 THEN 125
      ELSE IF engine.cw >= 3 THEN 112
      ELSE 100

\* A seventh consecutive win has taken the stake multiplier from 1.25 to
\* 1.40.
C23_Witness ==
  /\ last.op = "win"
  /\ engine.cw = 7
  /\ last.before.state.positionSizeMultiplier = 125
  /\ engine.state.positionSizeMultiplier = 140

\* C24, as stated: for every integer price p in 1..99 the fee the code
\* computes, 0.07 * (p/100) * (1 - p/100), equals the fee it computes at
\* 100 - p, and is no greater than the fee at 50.
C24_FeeSymmetric ==
  last.op \in {"fee", "calcFee"} =>
    LET p == last.out[1].price
        f == last.out[1].fee
    IN /\ f = Fee(100 - p)
       /\ DblLeq(f, Fee(50))

\* C24, amended: the fee the code computes at p is no greater than the
\* fee at 50, and it has the exponent of the fee at 100 - p and is within
\* 7 units in the last place of it; the exact products 7 * p * (100 - p)
\* are equal.
C24_FeeNearSymmetric ==
  last.op \in {"fee", "calcFee"} =>
    LET p == last.out[1].price
        f == last.out[1].fee
        g == Fee(100 - p)
    IN /\ DblLeq(f, Fee(50))
       /\ f.e = g.e
       /\ ~Less(Small(7), DblUlps(f, g))
       /\ 7 * p * (100 - p) = 7 * (100 - p) * (100 - (100 - p))
       /\ 7 * p * (100 - p) <= 7 * 50 * 50

\* The fee at a price whose computed fee is not the computed fee of the
\* complementary price has been taken.
C24_Witness ==
  /\ last.op = "fee"
  /\ last.out[1].price = 7
  /\ last.out[1].fee # Fee(93)
  /\ DblLeq(last.out[1].fee, Fee(50))

\* C25: from a pause() call until the next resume() call the bot is in
\* state PAUSED, no order is submitted and no bet is simulated.
C25_PausedHolds ==
  yolo.userPaused =>
    /\ yolo.state = "PAUSED"
    /\ ~yolo.ev.submit
    /\ ~yolo.ev.sim

\* C26: once a self-destruct has completed, both timers are cleared, the
\* bot is in state DEAD and no order is submitted; a self-destruct in
\* withdraw mode completes with no order left open at the venue, and in
\* halt mode cancelAllOrders is never called.
C26_SelfDestruct ==
  /\ yolo.dead =>
        /\ ~yolo.scanInterval
        /\ ~yolo.positionCheckInterval
        /\ yolo.state = "DEAD"
        /\ ~yolo.ev.submit
  /\ yolo.ev.died /\ yolo.destructMode = "withdraw" => yolo.venueOpen = 0
  /\ yolo.destructMode = "halt" => ~yolo.ev.asked

\* C27: after every recordOutcome and every restore the edge multiplier is
\* at least 0.55 and at most 1.70.
C27_EdgeMultiplierRange ==
  last.op \in {"win", "loss", "restore"} =>
    /\ engine.state.edgeMultiplier >= 5500
    /\ engine.state.edgeMultiplier <= 17000

\* A fifth loss in a row with no win recorded: 1.35 * 1.30 is above 1.70 and
\* the multiplier is 1.70; and the same engine after a restart.
C27_Witness ==
  /\ last.op \in {"loss", "restore"}
  /\ WinRateMult(engine) * StreakMult(engine) > 17000
  /\ engine.state.edgeMultiplier = 17000

\* C28: every rolling window holds at most windowSize entries and the
\* history at most 200; after recordOutcome(bet) the four windows of the
\* bet hold the newest windowSize entries of what they held with the new
\* outcome appended, in order, the other windows are as they were, and the
\* history holds its newest 200 entries in order, the new one last.
C28_BoundedFifo ==
  LET Newest(q, n) == SubSeq(q, Max(1, Len(q) - n + 1), Len(q))
      b == last.before
      n == Len(engine.history)
  IN /\ \A k \in Directions : Len(engine.directionOutcomes[k]) <= windowSize
     /\ \A k \in TierKeys : Len(engine.tierOutcomes[k]) <= windowSize
     /\ \A k \in VolKeys : Len(engine.volOutcomes[k]) <= windowSize
     /\ \A k \in TimeWindows : Len(engine.timeOutcomes[k]) <= windowSize
     /\ n <= HistoryCap
     /\ last.op \in {"win", "loss"} =>
          LET bet == last.out[1]
              won == IF bet.won THEN 1 ELSE 0
          IN /\ engine.directionOutcomes =
                  [b.directionOutcomes EXCEPT
                     ![bet.direction] = Newest(Append(@, won), windowSize)]
             /\ engine.tierOutcomes =
                  [b.tierOutcomes EXCEPT
                     ![Tier(bet.buyPrice)] = Newest(Append(@, won), windowSize)]
             /\ engine.volOutcomes =
                  [b.volOutcomes EXCEPT
                     ![bet.volRegime] = Newest(Append(@, won), windowSize)]
             /\ engine.timeOutcomes =
                  [b.timeOutcomes EXCEPT
                     ![bet.tw] = Newest(Append(@, won), windowSize)]
             /\ n = Min(Len(b.history) + 1, HistoryCap)
             /\ engine.history[n].won = won
             /\ SubSeq(engine.history, 1, n - 1) = Newest(b.history, n - 1)

\* An outcome recorded with the history and the bet's direction window
\* full: the oldest entry of each leaves.
C28_Witness ==
  /\ last.op \in {"win", "loss"}
  /\ Len(last.before.history) = HistoryCap
  /\ Len(last.before.directionOutcomes[last.out[1].direction]) = windowSize
  /\ engine.directionOutcomes # last.before.directionOutcomes
  /\ Len(engine.directionOutcomes[last.out[1].direction]) = windowSize
  /\ engine.history # last.before.history
  /\ Len(engine.history) = HistoryCap

\* C29: a step in which getMarket fails with an error other than not found,
\* or getOrderbook fails, leaves the open set, the tickers, the orders,
\* bankroll, peak, totals, streak and Correction Engine as they were, and
\* the run goes on to the next position of its loop; and an opportunity
\* found after a candidate whose analysis threw is sized and placed like
\* any other when there is a slot for every opportunity found.
C29_ErrorsIsolated ==
  [][/\ hist'.ev.err =>
          /\ UNCHANGED <<active, activeTickers, orders, bankroll, peak,
                         totalWins, totalLosses, streak, corr, settled,
                         exited>>
          /\ \E t \in Ticks :
               /\ tick[t].pc \in {"getMarket", "getOrderbook"}
               /\ tick[t].cur = hist'.ev.id
               /\ tick'[t] # tick[t]
               /\ LET rest == {i \in active :
                                /\ i > tick[t].cur
                                /\ tick[t].pc = "getOrderbook"
                                     => ~Skipped(World, tick[t], i)}
                  IN rest # {} => /\ tick'[t].pc = tick[t].pc
                                  /\ tick'[t].cur = Least(rest)
     /\ LET rs == hist'.ev.analysed
            found == {i \in 1..Len(rs) : rs[i].opp # <<>>}
        IN Cardinality(found) <= maxBets - Cardinality(active) =>
             \A i \in found :
               (\E j \in 1..(i - 1) : rs[j].threw) =>
                 LET o == rs[i].opp[1]
                 IN \/ Contracts(o, bankroll, peak, corr) = 0
                    \/ \E t \in Ticks :
                         \E k \in 1..Len(tick'[t].todo) :
                           tick'[t].todo[k] = o
                    \/ \E k \in active' \ active :
                         orders'[k].ticker = o.ticker]_vars

\* getMarket failed for one position and the same run is now polling the
\* next one.
C29_Witness ==
  /\ hist.ev.err
  /\ hist.ev.res = "error"
  /\ hist.ev.id \in active
  /\ \E t \in Ticks : tick[t].pc = "getMarket" /\ tick[t].cur > hist.ev.id

\* C30: in a lifecycle pass that began with a drawdown below 60% no order
\* book is fetched and no sell order is submitted for a micro position; in
\* a live pass that began at 60% or more the loop goes to the next open
\* position whether it is micro or not, leaves only when none is left, and
\* every sell it submits, for micro positions too, is an emergency one.
C30_MicroExempt ==
  [][\A t \in Ticks :
       LET l  == tick[t]
           l1 == tick'[t]
           rest == {i \in active' : i > l.cur}
       IN l1 # l =>
            /\ l1.pc \in {"getOrderbook", "sell"} /\ orders'[l1.cur].isMicro
                 => l1.dd60
            /\ l1.pc = "sell" /\ l1.dd60 => l1.reason = "EMERGENCY"
            /\ /\ ~dryRun
               /\ l1.pc # "sell"
               /\ \/ l.pc \in {"getOrderbook", "sleep"} /\ l.dd60
                  \/ l.pc = "getFills" /\ Dd60(bankroll, peak)
               => IF rest = {} THEN l1.pc # "getOrderbook"
                  ELSE l1.pc = "getOrderbook" /\ l1.cur = Least(rest)]_vars

\* A pass that began below 60% is fetching the order book of a position
\* after going past an open micro position.
C30_Witness ==
  \E t \in Ticks :
    /\ tick[t].pc = "getOrderbook"
    /\ ~tick[t].dd60
    /\ ~orders[tick[t].cur].isMicro
    /\ \E i \in active : i < tick[t].cur /\ orders[i].isMicro

\* C31: an engine constructed with no snapshot, or over a snapshot that
\* does not parse, has edge multiplier 1.0, stake multiplier 1.0, every
\* weight it holds 1.0, mode LEARNING, and leaves every base edge as it is
\* whatever the context; restore() of such a text returns.
C31_ColdStartNeutral ==
  last.op \in {"none", "cold"} =>
    /\ engine.state.edgeMultiplier = 10000
    /\ engine.state.positionSizeMultiplier = 100
    /\ \A k \in Directions : engine.state.directionBias[k] = WeightUnit
    /\ \A k \in BaseVolKeys : engine.state.volWeights[k] = WeightUnit
    /\ \A k \in TimeWindows : engine.state.timeWeights[k] = WeightUnit
    /\ engine.state.mode = "LEARNING"
    /\ \A d \in Directions, v \in VolKeys, w \in TimeWindows :
         AdjustedEdge(engine, 20,
                      [direction |-> d, volRegime |-> v, timeWindow |-> w])
           = 20 * 10000

\* A restart over a snapshot that does not parse, of an engine that had
\* left the learning phase with multipliers away from 1.0.
C31_Witness ==
  /\ last.op = "cold"
  /\ last.out # <<>>
  /\ last.before.state.mode # "LEARNING"
  /\ last.before.state.edgeMultiplier # 10000
  /\ last.before.state.positionSizeMultiplier # 100

\* C32: the reserved tickers are exactly the tickers of the open
\* positions.
C32_TickersMatchOpen ==
  activeTickers = {orders[i].ticker : i \in active}

C34_StreaksConsistent ==
  /\ engine.cw = 0 \/ engine.cl = 0
  /\ engine.peakWinStreak >= engine.cw
  /\ engine.worstLossStreak >= engine.cl

\* A win has just ended a run of losses, after a longer run of wins.
C34_Witness ==
  /\ last.op = "win" /\ last.before.cl >= 2
  /\ engine.cw = 1 /\ engine.cl = 0
  /\ engine.peakWinStreak >= 2 /\ engine.worstLossStreak >= 2

\* C35: at most one cycle interval is ever scheduled; once no start() is
\* suspended at an await, a running engine has exactly one and a stopped
\* engine has none.
C35_OneCycleTimer ==
  /\ intervals <= 1
  /\ (starting.balance = 0 /\ starting.price = 0) =>
        intervals = (IF running THEN 1 ELSE 0)

\* C36: a run of _cycle whose lifecycle pass began at a drawdown of 60% or
\* more opens no position, whether or not a position was open when the
\* pass began and whether or not the pass closed them all.
C36_NoEntryAfterDd60 ==
  [][\A t \in Ticks :
       tick[t].dd60 /\ tick'[t] # tick[t] => Len(orders') = Len(orders)]_vars

\* C37: _cancelStale never takes out a position whose buy order was filled
\* at the venue.
C37_FilledNotCancelled ==
  [][~(hist'.ev.cancelled /\ hist'.ev.res = "filled")]_vars

C39_DeadAbsorbing == [][yolo.state = "DEAD" => yolo'.state = "DEAD"]_vars
====
